---- MODULE Spec2Model ----
(***************************************************************************)
(* State-machine model of the nats_scan table function                     *)
(* (src/src/nats_scan.cpp): parameter binding, global-state                *)
(* initialisation, the timestamp-to-sequence binary search, the per-batch  *)
(* execution loop and the release of the native handles.                   *)
(*                                                                         *)
(* Strings the code inspects character by character (subjects, the subject *)
(* filter, dotted protobuf field paths) are sequences of one-character     *)
(* strings.  Payloads are sequences of bytes.  64-bit unsigned sequence     *)
(* numbers are scaled to WordBits bits; the engine's batch capacity is     *)
(* scaled to max_rows rows.                                                *)
(***************************************************************************)
EXTENDS Integers, Sequences, FiniteSets, TLC

VARIABLES
    args,                \* named parameters of the call (input.named_parameters)
    stream,              \* the broker's stream: snapshot bounds and messages
    pc,                  \* position of the query / of NatsScanExecute
    bind_data,           \* NatsScanBindData
    bind_error,          \* which bind check threw ("" = none)
    return_types,        \* output column types declared by bind
    gs,                  \* NatsScanGlobalState
    left, right, result_seq, resolving,   \* locals of ResolveTimestampToSequence
    count, output,       \* locals of NatsScanExecute: rows in batch, the batch
    probes,              \* history: every js_DirectGetMsg call and its answer
    emitted,             \* history: rows of all batches handed to the engine
    calls,               \* history: completed and aborted execution calls
    error,               \* diagnostic of the exception that aborted execution
    effective,           \* history: cursor and end bound when the scan phase starts
    released,            \* history: native handles released by the destructor
    broker_calls,        \* history: connect, JetStream and stream-info requests
    msg_events           \* history: direct-get calls, message releases, cursor steps

vars == << args, stream, pc, bind_data, bind_error, return_types, gs,
           left, right, result_seq, resolving, count, output,
           probes, emitted, calls, error, effective, released, broker_calls,
           msg_events >>

----------------------------------------------------------------------------
(* Bounds of the model *)

\* Width of the scaled uint64_t words.
WordBits == 4
\* Largest sequence number the broker has assigned.
MaxSeq == 3
\* Message timestamps range over 1..MaxTime microseconds.
MaxTime == 3
\* Batch capacity (STANDARD_VECTOR_SIZE, scaled).
max_rows == 2
\* Number of completed execution calls after which the engine stops pulling.
MaxCalls == 4

----------------------------------------------------------------------------
(* Integers and strings *)

UINT64_MAX == 2^WordBits - 1

\* uint64_t arithmetic wraps.
U64(x) == x % (2^WordBits)

Min(S) == CHOOSE x \in S : \A y \in S : x <= y

\* std::string::find(needle) != npos
Contains(s, needle) ==
    \E i \in 0..(Len(s) - Len(needle)) : SubSeq(s, i + 1, i + Len(needle)) = needle

\* The loop that splits a field path at every '.' (empty parts are kept).
RECURSIVE SplitFrom(_, _)
SplitFrom(s, start) ==
    LET dots == {i \in start..Len(s) : s[i] = "."}
    IN  IF dots = {}
        THEN << SubSeq(s, start, Len(s)) >>
        ELSE << SubSeq(s, start, Min(dots) - 1) >> \o SplitFrom(s, Min(dots) + 1)

SplitPath(field_path) == SplitFrom(field_path, 1)

----------------------------------------------------------------------------
(* The protobuf schema files visible to the importer (environment) *)

F_id == << "i", "d" >>
F_location == << "l", "o", "c", "a", "t", "i", "o", "n" >>
F_zone == << "z", "o", "n", "e" >>
Dot == << "." >>

NullField == [name |-> << >>, type |-> "NULL", message_type |-> "", number |-> 0]

\* Fields of each message type of telemetry.proto.
SchemaFields(desc) ==
    CASE desc = "Telemetry" ->
            { [name |-> F_id, type |-> "TYPE_INT64", message_type |-> "", number |-> 1],
              [name |-> F_location, type |-> "TYPE_MESSAGE", message_type |-> "Loc",
               number |-> 2] }
      [] desc = "Loc" ->
            { [name |-> F_zone, type |-> "TYPE_STRING", message_type |-> "", number |-> 1] }
      [] OTHER -> {}

\* Importer::Import: the file descriptor, or null ("") when the import fails.
Import(proto_file) == IF proto_file = "telemetry.proto" THEN "telemetry.proto" ELSE ""

\* FileDescriptor::FindMessageTypeByName: the descriptor, or null ("").
FindMessageTypeByName(file_desc, proto_message) ==
    IF file_desc = "telemetry.proto" /\ proto_message \in {"Telemetry", "Loc"}
    THEN proto_message ELSE ""

\* Descriptor::FindFieldByName: the field descriptor, or NullField.
FindFieldByName(desc, part) ==
    IF \E f \in SchemaFields(desc) : f.name = part
    THEN CHOOSE f \in SchemaFields(desc) : f.name = part
    ELSE NullField

----------------------------------------------------------------------------
(* Schema helpers *)

RECURSIVE WalkDescriptor(_, _, _)
WalkDescriptor(current_desc, path_parts, i) ==
    LET field == FindFieldByName(current_desc, path_parts[i])
    IN  IF field = NullField THEN NullField
        ELSE IF i < Len(path_parts)
        THEN IF field.type # "TYPE_MESSAGE" THEN NullField
             ELSE WalkDescriptor(field.message_type, path_parts, i + 1)
        ELSE field

\* Variant: the whole path is looked up as one field name of the root message.
GetFieldDescriptorForPath_RootOnly(message_desc, field_path) ==
    FindFieldByName(message_desc, field_path)

GetFieldDescriptorForPath(message_desc, field_path) ==
    WalkDescriptor(message_desc, SplitPath(field_path), 1)

\* Variant: 64-bit signed kinds are declared as 32-bit integers.
ProtobufTypeToDuckDBType_Int64AsInteger(field) ==
    CASE field.type = "TYPE_STRING" -> "VARCHAR"
      [] field.type = "TYPE_BYTES" -> "BLOB"
      [] field.type \in {"TYPE_INT32", "TYPE_SINT32", "TYPE_SFIXED32", "TYPE_INT64",
                         "TYPE_SINT64", "TYPE_SFIXED64"} -> "INTEGER"
      [] field.type \in {"TYPE_UINT32", "TYPE_FIXED32"} -> "UINTEGER"
      [] field.type \in {"TYPE_UINT64", "TYPE_FIXED64"} -> "UBIGINT"
      [] field.type = "TYPE_FLOAT" -> "FLOAT"
      [] field.type = "TYPE_DOUBLE" -> "DOUBLE"
      [] field.type = "TYPE_BOOL" -> "BOOLEAN"
      [] OTHER -> "VARCHAR"

ProtobufTypeToDuckDBType(field) ==
    CASE field.type = "TYPE_STRING" -> "VARCHAR"
      [] field.type = "TYPE_BYTES" -> "BLOB"
      [] field.type \in {"TYPE_INT32", "TYPE_SINT32", "TYPE_SFIXED32"} -> "INTEGER"
      [] field.type \in {"TYPE_INT64", "TYPE_SINT64", "TYPE_SFIXED64"} -> "BIGINT"
      [] field.type \in {"TYPE_UINT32", "TYPE_FIXED32"} -> "UINTEGER"
      [] field.type \in {"TYPE_UINT64", "TYPE_FIXED64"} -> "UBIGINT"
      [] field.type = "TYPE_FLOAT" -> "FLOAT"
      [] field.type = "TYPE_DOUBLE" -> "DOUBLE"
      [] field.type = "TYPE_BOOL" -> "BOOLEAN"
      [] field.type = "TYPE_ENUM" -> "VARCHAR"
      [] field.type = "TYPE_MESSAGE" -> "VARCHAR"
      [] OTHER -> "VARCHAR"

\* Bind's own walk over one field path: "" when the path is valid, else the
\* kind of error thrown.
RECURSIVE ValidateWalk(_, _, _)
ValidateWalk(current_desc, path_parts, i) ==
    IF i > Len(path_parts) THEN ""
    ELSE LET field == FindFieldByName(current_desc, path_parts[i])
         IN  IF field = NullField THEN "field_not_found"
             ELSE IF i < Len(path_parts)
             THEN IF field.type # "TYPE_MESSAGE" THEN "not_a_message"
                  ELSE ValidateWalk(field.message_type, path_parts, i + 1)
             ELSE ""

ValidateFieldPath(descriptor, field_path) ==
    ValidateWalk(descriptor, SplitPath(field_path), 1)

\* The validation loop over proto_fields: the error of the first invalid path.
RECURSIVE ValidateFields(_, _, _)
ValidateFields(descriptor, proto_fields, k) ==
    IF k > Len(proto_fields) THEN ""
    ELSE IF ValidateFieldPath(descriptor, proto_fields[k]) # ""
    THEN ValidateFieldPath(descriptor, proto_fields[k])
    ELSE ValidateFields(descriptor, proto_fields, k + 1)

----------------------------------------------------------------------------
(* Bytes, text and engine values *)

Letters == << "a", "b", "c", "d", "e", "f", "g", "h", "i", "j", "k", "l", "m",
              "n", "o", "p", "q", "r", "s", "t", "u", "v", "w", "x", "y", "z" >>

Digits == << "0", "1", "2", "3", "4", "5", "6", "7", "8", "9" >>

\* The byte of a character (payloads are byte arrays, data and data_len).
Ascii(c) ==
    IF \E i \in 1..Len(Letters) : Letters[i] = c
    THEN 96 + (CHOOSE i \in 1..Len(Letters) : Letters[i] = c)
    ELSE IF \E i \in 1..Len(Digits) : Digits[i] = c
    THEN 47 + (CHOOSE i \in 1..Len(Digits) : Digits[i] = c)
    ELSE CASE c = " " -> 32
           [] c = "\"" -> 34
           [] c = "," -> 44
           [] c = "-" -> 45
           [] c = "." -> 46
           [] c = ":" -> 58
           [] c = "[" -> 91
           [] c = "]" -> 93
           [] c = "{" -> 123
           [] c = "}" -> 125

\* The bytes of a string.
Text(s) == [i \in 1..Len(s) |-> Ascii(s[i])]

IsDigit(b) == 48 <= b /\ b <= 57

\* Value(): the NULL value.
NullValue == [type |-> "NULL", text |-> << >>, num |-> 0]

\* Value(string), Value(const char *)
VarcharValue(bytes) == [type |-> "VARCHAR", text |-> bytes, num |-> 0]

\* Value::BLOB(data, len)
BlobValue(bytes) == [type |-> "BLOB", text |-> bytes, num |-> 0]

\* Value::INTEGER, BIGINT, UINTEGER, UBIGINT, FLOAT, DOUBLE, BOOLEAN
NumericValue(type, n) == [type |-> type, text |-> << >>, num |-> n]

----------------------------------------------------------------------------
(* The JSON parser (yyjson) as the scan uses it *)

\* std::to_string(double) prints this many digits after the point ("%f").
Precision == 6

\* Reals are kept in units of 10^-FracDigits: one digit more than is printed.
FracDigits == Precision + 1

Pow10(n) == 10 ^ n

NoJson == [kind |-> "none", text |-> << >>, num |-> 0, elems |-> << >>]

JsonFail == [ok |-> FALSE, val |-> NoJson, next |-> 0]

JsonOk(val, next) == [ok |-> TRUE, val |-> val, next |-> next]

JsonAtom(kind) == [kind |-> kind, text |-> << >>, num |-> 0, elems |-> << >>]

\* The first position at or after i that holds no space (Len + 1 at the end).
SkipSpaces(d, i) == Min({k \in i..(Len(d) + 1) : k = Len(d) + 1 \/ d[k] # 32})

\* The end of the run of digits that starts at i (i - 1 when there is none).
DigitsEnd(d, i) ==
    Min({k \in (i - 1)..Len(d) : k = Len(d) \/ ~IsDigit(d[k + 1])})

\* The number the digits d[i..j] spell.
RECURSIVE DigitsValue(_, _, _)
DigitsValue(d, i, j) ==
    IF j < i THEN 0 ELSE 10 * DigitsValue(d, i, j - 1) + (d[j] - 48)

\* A string literal: the bytes between two quotes (the inputs hold no escapes).
ParseString(d, i) ==
    LET quotes == {k \in (i + 1)..Len(d) : d[k] = 34}
    IN  IF quotes = {} THEN JsonFail
        ELSE JsonOk([kind |-> "str", text |-> SubSeq(d, i + 1, Min(quotes) - 1),
                     num |-> 0, elems |-> << >>],
                    Min(quotes) + 1)

\* A number literal: an integer, or digits '.' digits (the inputs hold no
\* sign and no exponent).
ParseNumber(d, i) ==
    LET e == DigitsEnd(d, i)
        f == DigitsEnd(d, e + 2)
    IN  IF e > i /\ d[i] = 48 THEN JsonFail
        ELSE IF e < Len(d) /\ d[e + 1] = 46
        THEN IF f < e + 2 \/ f - (e + 1) > FracDigits THEN JsonFail
             ELSE JsonOk([kind |-> "real", text |-> << >>, elems |-> << >>,
                          num |-> DigitsValue(d, i, e) * Pow10(FracDigits)
                                  + DigitsValue(d, e + 2, f)
                                    * Pow10(FracDigits - (f - (e + 1)))],
                         f + 1)
        ELSE JsonOk([kind |-> "uint", text |-> << >>, elems |-> << >>,
                     num |-> DigitsValue(d, i, e) * Pow10(FracDigits)],
                    e + 1)

ParseLiteral(d, i, word, kind) ==
    IF SubSeq(d, i, i + Len(word) - 1) = Text(word)
    THEN JsonOk(JsonAtom(kind), i + Len(word)) ELSE JsonFail

RECURSIVE ParseValue(_, _), ParseElems(_, _, _, _, _)
\* A value that starts at or after position i.
ParseValue(d, i) ==
    LET s == SkipSpaces(d, i)
    IN  IF s > Len(d) THEN JsonFail
        ELSE IF d[s] = 123 THEN ParseElems(d, s + 1, "obj", << >>, TRUE)
        ELSE IF d[s] = 91 THEN ParseElems(d, s + 1, "arr", << >>, TRUE)
        ELSE IF d[s] = 34 THEN ParseString(d, s)
        ELSE IF IsDigit(d[s]) THEN ParseNumber(d, s)
        ELSE IF d[s] = 116 THEN ParseLiteral(d, s, << "t", "r", "u", "e" >>, "true")
        ELSE IF d[s] = 102
        THEN ParseLiteral(d, s, << "f", "a", "l", "s", "e" >>, "false")
        ELSE IF d[s] = 110 THEN ParseLiteral(d, s, << "n", "u", "l", "l" >>, "null")
        ELSE JsonFail

\* The members of an object or the items of an array, up to its closing
\* bracket; may_close is true right after the opening bracket only.
ParseElems(d, i, kind, acc, may_close) ==
    LET s == SkipSpaces(d, i)
        close == IF kind = "obj" THEN 125 ELSE 93
        key == IF kind = "obj" /\ s <= Len(d) /\ d[s] = 34
               THEN ParseString(d, s) ELSE JsonFail
        colon == IF key.ok THEN SkipSpaces(d, key.next) ELSE 0
        val == IF kind = "arr" THEN ParseValue(d, s)
               ELSE IF key.ok /\ colon <= Len(d) /\ d[colon] = 58
               THEN ParseValue(d, colon + 1)
               ELSE JsonFail
        after == IF val.ok THEN SkipSpaces(d, val.next) ELSE 0
        elem == [key |-> IF kind = "obj" THEN key.val.text ELSE << >>, val |-> val.val]
    IN  IF s > Len(d) THEN JsonFail
        ELSE IF may_close /\ d[s] = close
        THEN JsonOk([kind |-> kind, text |-> << >>, num |-> 0, elems |-> acc], s + 1)
        ELSE IF ~val.ok \/ after > Len(d) THEN JsonFail
        ELSE IF d[after] = 44
        THEN ParseElems(d, after + 1, kind, Append(acc, elem), FALSE)
        ELSE IF d[after] = close
        THEN JsonOk([kind |-> kind, text |-> << >>, num |-> 0,
                     elems |-> Append(acc, elem)], after + 1)
        ELSE JsonFail

\* yyjson_read and yyjson_doc_get_root: the root value, or no document when
\* the payload is not one JSON value followed by nothing but spaces.
yyjson_read(data) ==
    LET r == ParseValue(data, 1)
    IN  IF r.ok /\ SkipSpaces(data, r.next) > Len(data) THEN r.val ELSE NoJson

\* yyjson_obj_get: the first member with that key, none when the value is not
\* an object or has no such member.
yyjson_obj_get(root, key) ==
    IF root.kind = "obj" /\ \E k \in 1..Len(root.elems) : root.elems[k].key = key
    THEN root.elems[Min({k \in 1..Len(root.elems) : root.elems[k].key = key})].val
    ELSE NoJson

\* The decimal digits of a natural number.
RECURSIVE DigitsOf(_)
DigitsOf(n) == IF n < 10 THEN << 48 + n >> ELSE DigitsOf(n \div 10) \o << 48 + (n % 10) >>

\* The last width decimal digits of n, zero-padded.
RECURSIVE FixedDigits(_, _)
FixedDigits(n, width) ==
    IF width = 0 THEN << >> ELSE FixedDigits(n \div 10, width - 1) \o << 48 + (n % 10) >>

\* std::to_string(double): fixed notation, Precision digits after the point,
\* the value rounded to that precision.
to_string(num) ==
    LET unit == Pow10(FracDigits - Precision)
        rounded == (num + unit \div 2) \div unit
    IN  DigitsOf(rounded \div Pow10(Precision)) \o << 46 >>
        \o FixedDigits(rounded % Pow10(Precision), Precision)

\* The fraction digits without trailing zeros (at least one digit).
RECURSIVE ShortestFraction(_, _)
ShortestFraction(frac, width) ==
    IF width > 1 /\ frac % 10 = 0 THEN ShortestFraction(frac \div 10, width - 1)
    ELSE FixedDigits(frac, width)

RECURSIVE yyjson_val_write(_), WriteElems(_, _, _)
\* yyjson_val_write(val, 0, nullptr): the minified JSON text of a value.
yyjson_val_write(val) ==
    CASE val.kind = "str" -> << 34 >> \o val.text \o << 34 >>
      [] val.kind = "uint" -> DigitsOf(val.num \div Pow10(FracDigits))
      [] val.kind = "real" ->
            DigitsOf(val.num \div Pow10(FracDigits)) \o << 46 >>
            \o ShortestFraction(val.num % Pow10(FracDigits), FracDigits)
      [] val.kind = "true" -> Text(<< "t", "r", "u", "e" >>)
      [] val.kind = "false" -> Text(<< "f", "a", "l", "s", "e" >>)
      [] val.kind = "null" -> Text(<< "n", "u", "l", "l" >>)
      [] val.kind = "obj" -> << 123 >> \o WriteElems(val.elems, 1, TRUE) \o << 125 >>
      [] val.kind = "arr" -> << 91 >> \o WriteElems(val.elems, 1, FALSE) \o << 93 >>

WriteElems(elems, k, keyed) ==
    IF k > Len(elems) THEN << >>
    ELSE (IF k > 1 THEN << 44 >> ELSE << >>)
         \o (IF keyed THEN << 34 >> \o elems[k].key \o << 34, 58 >> ELSE << >>)
         \o yyjson_val_write(elems[k].val)
         \o WriteElems(elems, k + 1, keyed)

\* Variant: a JSON null is written as the text "null".
JsonFieldValue_NullAsText(field_val) ==
    IF field_val.kind = "none" THEN NullValue
    ELSE IF field_val.kind = "str" THEN VarcharValue(field_val.text)
    ELSE IF field_val.kind \in {"uint", "real"} THEN VarcharValue(to_string(field_val.num))
    ELSE IF field_val.kind \in {"true", "false"}
    THEN VarcharValue(Text(IF field_val.kind = "true" THEN << "t", "r", "u", "e" >>
                           ELSE << "f", "a", "l", "s", "e" >>))
    ELSE VarcharValue(yyjson_val_write(field_val))

\* The value written to the column of one requested field.
JsonFieldValue(field_val) ==
    IF field_val.kind = "none" THEN NullValue
    ELSE IF field_val.kind = "str" THEN VarcharValue(field_val.text)
    ELSE IF field_val.kind \in {"uint", "real"} THEN VarcharValue(to_string(field_val.num))
    ELSE IF field_val.kind \in {"true", "false"}
    THEN VarcharValue(Text(IF field_val.kind = "true" THEN << "t", "r", "u", "e" >>
                           ELSE << "f", "a", "l", "s", "e" >>))
    ELSE IF field_val.kind = "null" THEN NullValue
    ELSE VarcharValue(yyjson_val_write(field_val))

\* Variant: a payload that does not parse yields empty strings.
JsonColumns_EmptyOnFailure(json_fields, data) ==
    LET root == yyjson_read(data)
    IN  IF root.kind # "none"
        THEN [i \in 1..Len(json_fields) |->
                JsonFieldValue(yyjson_obj_get(root, Text(json_fields[i])))]
        ELSE [i \in 1..Len(json_fields) |-> VarcharValue(<< >>)]

\* "Extract JSON fields if requested": the extraction columns of a row.
JsonColumns(json_fields, data) ==
    LET root == yyjson_read(data)
    IN  IF root.kind # "none"
        THEN [i \in 1..Len(json_fields) |->
                JsonFieldValue(yyjson_obj_get(root, Text(json_fields[i])))]
        ELSE [i \in 1..Len(json_fields) |-> NullValue]

----------------------------------------------------------------------------
(* The protobuf library as the scan uses it: wire format and reflection *)

WireFail == [ok |-> FALSE, val |-> 0, next |-> 0]

\* A base-128 varint that starts at position i.
RECURSIVE ReadVarint(_, _)
ReadVarint(d, i) ==
    IF i > Len(d) THEN WireFail
    ELSE IF d[i] < 128 THEN [ok |-> TRUE, val |-> d[i], next |-> i + 1]
    ELSE LET rest == ReadVarint(d, i + 1)
         IN  IF ~rest.ok THEN WireFail
             ELSE [ok |-> TRUE, val |-> (d[i] - 128) + 128 * rest.val,
                   next |-> rest.next]

RECURSIVE LittleEndian(_, _)
LittleEndian(bytes, k) ==
    IF k > Len(bytes) THEN 0 ELSE bytes[k] + 256 * LittleEndian(bytes, k + 1)

EntriesFail == [ok |-> FALSE, entries |-> << >>]

\* The (field number, wire type, value) entries of an encoded message: wire
\* type 0 is a varint, 2 is length-delimited, 1 and 5 are fixed 8 and 4 bytes
\* (the inputs hold no groups).
RECURSIVE ReadEntries(_, _, _)
ReadEntries(d, i, acc) ==
    IF i > Len(d) THEN [ok |-> TRUE, entries |-> acc]
    ELSE LET tag == ReadVarint(d, i)
             number == tag.val \div 8
             wire == tag.val % 8
             v == ReadVarint(d, tag.next)
             width == IF wire = 1 THEN 8 ELSE 4
         IN  IF ~tag.ok \/ number = 0 THEN EntriesFail
             ELSE IF wire = 0
             THEN IF ~v.ok THEN EntriesFail
                  ELSE ReadEntries(d, v.next,
                           Append(acc, [number |-> number, wire |-> wire,
                                        num |-> v.val, bytes |-> << >>]))
             ELSE IF wire = 2
             THEN IF ~v.ok \/ v.next + v.val - 1 > Len(d) THEN EntriesFail
                  ELSE ReadEntries(d, v.next + v.val,
                           Append(acc, [number |-> number, wire |-> wire, num |-> 0,
                                        bytes |-> SubSeq(d, v.next, v.next + v.val - 1)]))
             ELSE IF wire \in {1, 5}
             THEN IF tag.next + width - 1 > Len(d) THEN EntriesFail
                  ELSE ReadEntries(d, tag.next + width,
                           Append(acc,
                               [number |-> number, wire |-> wire, bytes |-> << >>,
                                num |-> LittleEndian(
                                    SubSeq(d, tag.next, tag.next + width - 1), 1)]))
             ELSE EntriesFail

\* The wire type a field of that kind is encoded with.
WireType(type) ==
    CASE type \in {"TYPE_STRING", "TYPE_BYTES", "TYPE_MESSAGE"} -> 2
      [] type \in {"TYPE_DOUBLE", "TYPE_FIXED64", "TYPE_SFIXED64"} -> 1
      [] type \in {"TYPE_FLOAT", "TYPE_FIXED32", "TYPE_SFIXED32"} -> 5
      [] OTHER -> 0

FieldByNumber(desc, number) ==
    IF \E f \in SchemaFields(desc) : f.number = number
    THEN CHOOSE f \in SchemaFields(desc) : f.number = number
    ELSE NullField

\* Message::ParseFromArray: the payload is a sequence of entries and every
\* embedded message of a known field parses in turn.
RECURSIVE ParseFromArray(_, _)
ParseFromArray(desc, data) ==
    LET r == ReadEntries(data, 1, << >>)
    IN  /\ r.ok
        /\ \A k \in 1..Len(r.entries) :
             LET f == FieldByNumber(desc, r.entries[k].number)
             IN  (f # NullField /\ f.type = "TYPE_MESSAGE" /\ r.entries[k].wire = 2)
                 => ParseFromArray(f.message_type, r.entries[k].bytes)

\* The message object after a successful parse: its entries.
ParsedMessage(data) == ReadEntries(data, 1, << >>).entries

\* The entries that set a field (entries of another wire type are unknown
\* fields).
FieldEntries(message, field) ==
    SelectSeq(message,
              LAMBDA e : e.number = field.number /\ e.wire = WireType(field.type))

\* The last value of a numeric field, or the default 0; sint kinds are
\* zigzag-encoded.
GetNumber(message, field) ==
    LET es == FieldEntries(message, field)
        raw == IF es = << >> THEN 0 ELSE es[Len(es)].num
    IN  IF field.type \in {"TYPE_SINT32", "TYPE_SINT64"}
        THEN IF raw % 2 = 0 THEN raw \div 2 ELSE -((raw + 1) \div 2)
        ELSE raw

\* Reflection::GetString: the last value, or the default empty string.
GetString(message, field) ==
    LET es == FieldEntries(message, field)
    IN  IF es = << >> THEN << >> ELSE es[Len(es)].bytes

RECURSIVE ConcatBytes(_, _)
ConcatBytes(es, k) == IF k > Len(es) THEN << >> ELSE es[k].bytes \o ConcatBytes(es, k + 1)

\* Reflection::GetMessage: occurrences of an embedded message field merge.
GetMessage(message, field) == ParsedMessage(ConcatBytes(FieldEntries(message, field), 1))

\* Reflection::HasField: a message field is set when it was encoded; a proto3
\* scalar is set when it differs from its default.
HasField(message, field) ==
    IF field.type = "TYPE_MESSAGE" THEN FieldEntries(message, field) # << >>
    ELSE IF field.type \in {"TYPE_STRING", "TYPE_BYTES"}
    THEN GetString(message, field) # << >>
    ELSE GetNumber(message, field) # 0

\* EnumValueDescriptor::name of the value a field holds.
EnumValueName(field, n) == Text(<< "v" >>) \o DigitsOf(n)

----------------------------------------------------------------------------
(* ExtractProtobufValue *)

\* "Last part - extract the value"
ExtractLeaf(current_message, field) ==
    IF ~HasField(current_message, field) /\ field.type = "TYPE_MESSAGE" THEN NullValue
    ELSE CASE field.type = "TYPE_STRING" ->
                VarcharValue(GetString(current_message, field))
           [] field.type = "TYPE_BYTES" -> BlobValue(GetString(current_message, field))
           [] field.type \in {"TYPE_INT32", "TYPE_SINT32", "TYPE_SFIXED32"} ->
                NumericValue("INTEGER", GetNumber(current_message, field))
           [] field.type \in {"TYPE_INT64", "TYPE_SINT64", "TYPE_SFIXED64"} ->
                NumericValue("BIGINT", GetNumber(current_message, field))
           [] field.type \in {"TYPE_UINT32", "TYPE_FIXED32"} ->
                NumericValue("UINTEGER", GetNumber(current_message, field))
           [] field.type \in {"TYPE_UINT64", "TYPE_FIXED64"} ->
                NumericValue("UBIGINT", GetNumber(current_message, field))
           [] field.type = "TYPE_FLOAT" ->
                NumericValue("FLOAT", GetNumber(current_message, field))
           [] field.type = "TYPE_DOUBLE" ->
                NumericValue("DOUBLE", GetNumber(current_message, field))
           [] field.type = "TYPE_BOOL" ->
                NumericValue("BOOLEAN",
                             IF GetNumber(current_message, field) # 0 THEN 1 ELSE 0)
           [] field.type = "TYPE_ENUM" ->
                VarcharValue(EnumValueName(field, GetNumber(current_message, field)))
           [] field.type = "TYPE_MESSAGE" -> NullValue
           [] OTHER -> NullValue

\* Variant: an unset intermediate message is read as an empty message.
RECURSIVE ExtractWalk_ReadsUnset(_, _, _, _)
ExtractWalk_ReadsUnset(current_message, current_desc, path_parts, i) ==
    LET field == FindFieldByName(current_desc, path_parts[i])
    IN  IF field = NullField THEN NullValue
        ELSE IF i < Len(path_parts)
        THEN IF field.type # "TYPE_MESSAGE" THEN NullValue
             ELSE ExtractWalk_ReadsUnset(GetMessage(current_message, field),
                                         field.message_type, path_parts, i + 1)
        ELSE ExtractLeaf(current_message, field)

\* "Navigate through nested messages to find the final field"
RECURSIVE ExtractWalk(_, _, _, _)
ExtractWalk(current_message, current_desc, path_parts, i) ==
    LET field == FindFieldByName(current_desc, path_parts[i])
    IN  IF field = NullField THEN NullValue
        ELSE IF i < Len(path_parts)
        THEN IF field.type # "TYPE_MESSAGE" THEN NullValue
             ELSE IF ~HasField(current_message, field) THEN NullValue
             ELSE ExtractWalk(GetMessage(current_message, field), field.message_type,
                              path_parts, i + 1)
        ELSE ExtractLeaf(current_message, field)

\* The return statement of ExtractProtobufValue that the walk reaches.
RECURSIVE ExtractBranch(_, _, _, _)
ExtractBranch(current_message, current_desc, path_parts, i) ==
    LET field == FindFieldByName(current_desc, path_parts[i])
    IN  IF field = NullField THEN "field_not_found"
        ELSE IF i < Len(path_parts)
        THEN IF field.type # "TYPE_MESSAGE" THEN "not_a_message"
             ELSE IF ~HasField(current_message, field) THEN "nested_unset"
             ELSE ExtractBranch(GetMessage(current_message, field), field.message_type,
                                path_parts, i + 1)
        ELSE "leaf"

ExtractProtobufValue(message, field_path, root_descriptor) ==
    ExtractWalk(message, root_descriptor, SplitPath(field_path), 1)

\* "Extract protobuf fields if requested": the extraction columns of a row.
ProtoColumns(proto_fields, proto_descriptor, data) ==
    IF ParseFromArray(proto_descriptor, data)
    THEN [i \in 1..Len(proto_fields) |->
            ExtractProtobufValue(ParsedMessage(data), proto_fields[i], proto_descriptor)]
    ELSE [i \in 1..Len(proto_fields) |-> NullValue]

----------------------------------------------------------------------------
(* NatsScanBind *)

Named(name, default) == IF name \in args.given THEN args[name] ELSE default

\* The locals of NatsScanBind after the loop over the named parameters.
\* Timestamps arrive in microseconds and are kept in nanoseconds.
BindLocals ==
    [ subject_filter |-> Named("subject", << >>),
      start_seq      |-> Named("start_seq", 0),
      end_seq        |-> Named("end_seq", UINT64_MAX),
      start_time     |-> Named("start_time", 0) * 1000,
      end_time       |-> Named("end_time", 0) * 1000,
      json_fields    |-> Named("json_extract", << >>),
      proto_file     |-> Named("proto_file", ""),
      proto_message  |-> Named("proto_message", ""),
      proto_fields   |-> Named("proto_extract", << >>) ]

\* Variant: only the start bounds are compared.
MixesSequenceAndTime_StartOnly(b) == b.start_seq > 0 /\ b.start_time > 0

\* "sequence and time parameters are not mixed"
MixesSequenceAndTime(b) ==
    (b.start_seq > 0 \/ b.end_seq # UINT64_MAX) /\ (b.start_time > 0 \/ b.end_time > 0)

\* Variant: the emptiness tests are inverted.
BothExtractions_Inverted(b) == b.json_fields = << >> /\ b.proto_fields = << >>

\* "json_extract and proto_extract are not both specified"
BothExtractions(b) == b.json_fields # << >> /\ b.proto_fields # << >>

\* "Validate protobuf parameters": the error thrown, "" when none.
MissingProtoParameter(b) ==
    IF b.proto_fields = << >> THEN ""
    ELSE IF b.proto_file = "" THEN "proto_file_required"
    ELSE IF b.proto_message = "" THEN "proto_message_required"
    ELSE ""

\* The descriptor bind resolves (null = "") when proto_extract is given.
BindDescriptor(b) ==
    IF b.proto_fields = << >> THEN ""
    ELSE FindMessageTypeByName(Import(b.proto_file), b.proto_message)

\* Schema import, message lookup and field validation: the error thrown.
SchemaError(b) ==
    IF b.proto_fields = << >> THEN ""
    ELSE IF Import(b.proto_file) = "" THEN "import_failed"
    ELSE IF BindDescriptor(b) = "" THEN "message_not_found"
    ELSE ValidateFields(BindDescriptor(b), b.proto_fields, 1)

\* The first check of bind that throws, in the order of the code.
BindCheck(b) ==
    IF MixesSequenceAndTime(b) THEN "mixed_seq_and_time"
    ELSE IF BothExtractions(b) THEN "json_and_proto"
    ELSE IF MissingProtoParameter(b) # "" THEN MissingProtoParameter(b)
    ELSE SchemaError(b)

\* The declared type of one protobuf extraction column.
ProtoColumnType(descriptor, field_path) ==
    LET field_desc == GetFieldDescriptorForPath(descriptor, field_path)
    IN  IF field_desc # NullField THEN ProtobufTypeToDuckDBType(field_desc)
        ELSE "VARCHAR"

\* "Define return schema"
ReturnTypes(b) ==
    << "VARCHAR", "VARCHAR", "UBIGINT", "TIMESTAMP",
       IF b.proto_fields # << >> THEN "BLOB" ELSE "VARCHAR" >>
    \o [i \in 1..Len(b.json_fields) |-> "VARCHAR"]
    \o [i \in 1..Len(b.proto_fields) |->
            ProtoColumnType(BindDescriptor(b), b.proto_fields[i])]

\* Variant: the schema objects are not stored in the bind data.
MakeBindData_NoDescriptor(b) ==
    [ subject_filter   |-> b.subject_filter,
      start_seq        |-> b.start_seq,
      end_seq          |-> b.end_seq,
      start_time       |-> b.start_time,
      end_time         |-> b.end_time,
      json_fields      |-> b.json_fields,
      proto_file       |-> b.proto_file,
      proto_message    |-> b.proto_message,
      proto_fields     |-> b.proto_fields,
      proto_descriptor |-> "" ]

\* bind_data as constructed at the end of bind.
MakeBindData(b) ==
    [ subject_filter   |-> b.subject_filter,
      start_seq        |-> b.start_seq,
      end_seq          |-> b.end_seq,
      start_time       |-> b.start_time,
      end_time         |-> b.end_time,
      json_fields      |-> b.json_fields,
      proto_file       |-> b.proto_file,
      proto_message    |-> b.proto_message,
      proto_fields     |-> b.proto_fields,
      proto_descriptor |-> IF b.proto_fields # << >> THEN BindDescriptor(b) ELSE "" ]

NoBindData ==
    [ subject_filter |-> << >>, start_seq |-> 0, end_seq |-> 0, start_time |-> 0,
      end_time |-> 0, json_fields |-> << >>, proto_file |-> "", proto_message |-> "",
      proto_fields |-> << >>, proto_descriptor |-> "" ]

NatsScanBind ==
    /\ pc = "bind"
    /\ IF BindCheck(BindLocals) # ""
       THEN /\ pc' = "bind_error"
            /\ bind_error' = BindCheck(BindLocals)
            /\ UNCHANGED << bind_data, return_types >>
       ELSE /\ pc' = "init_global"
            /\ bind_data' = MakeBindData(BindLocals)
            /\ return_types' = ReturnTypes(BindLocals)
            /\ UNCHANGED bind_error
    /\ UNCHANGED << args, stream, gs, left, right, result_seq, resolving, count,
                    output, probes, emitted, calls, error, effective, released,
                    broker_calls, msg_events >>

----------------------------------------------------------------------------
(* NatsScanGlobalState and NatsScanInitGlobal *)

NullStreamInfo == [valid |-> FALSE, FirstSeq |-> 0, LastSeq |-> 0]

\* The member initialisers of NatsScanGlobalState.
NewGlobalState ==
    [ conn |-> FALSE, js |-> FALSE, stream_info |-> NullStreamInfo,
      current_seq |-> 0, end_seq |-> 0, done |-> FALSE,
      timestamps_resolved |-> FALSE, proto_prototype |-> FALSE ]

\* Variant: the cursor starts at 1 whatever start_seq is.
InitialCursor_IgnoresStart(start_seq) == 1

\* current_seq starts at start_seq, or at 1 when start_seq is 0.
InitialCursor(start_seq) == IF start_seq > 0 THEN start_seq ELSE 1

InitGlobalState(b) ==
    [ NewGlobalState EXCEPT
        !.current_seq = InitialCursor(b.start_seq),
        !.end_seq = b.end_seq,
        !.done = FALSE,
        !.proto_prototype = (b.proto_fields # << >> /\ b.proto_descriptor # "") ]

NatsScanInitGlobal ==
    /\ pc = "init_global"
    /\ gs' = InitGlobalState(bind_data)
    /\ pc' = "idle"
    /\ UNCHANGED << args, stream, bind_data, bind_error, return_types, left, right,
                    result_seq, resolving, count, output, probes, emitted, calls,
                    error, effective, released,
                    broker_calls, msg_events >>

----------------------------------------------------------------------------
(* The broker *)

Absent == [present |-> FALSE, subject |-> << >>, time |-> 0, payload |-> << >>]

Present(seq) == seq \in 1..MaxSeq /\ stream.msgs[seq].present

\* The answers js_DirectGetMsg can give for a sequence: the message, NOT_FOUND
\* for a sequence that holds none, or any other failure of the request.
DirectGetStatuses(seq) ==
    IF Present(seq) THEN {"NATS_OK", "NATS_ERR"} ELSE {"NATS_NOT_FOUND", "NATS_ERR"}

BrokerStatuses == {"NATS_OK", "NATS_ERR"}

----------------------------------------------------------------------------
(* Calls on fetched messages, in the order the code makes them *)

DirectGet(seq, status) == [op |-> "js_DirectGetMsg", seq |-> seq, status |-> status]
MsgDestroy(seq) == [op |-> "natsMsg_Destroy", seq |-> seq, status |-> ""]
CursorStep(seq) == [op |-> "current_seq++", seq |-> seq, status |-> ""]

\* The resolver's probe of mid: a message it obtained is released once its
\* timestamp was read.
ResolverEvents(mid, status) ==
    IF status = "NATS_OK"
    THEN << DirectGet(mid, status), MsgDestroy(mid) >>
    ELSE << DirectGet(mid, status) >>

\* Fill loop, NOT_FOUND: no message was obtained.
AbsentEvents(seq) == << DirectGet(seq, "NATS_NOT_FOUND"), CursorStep(seq) >>

\* Fill loop, any other failure: the exception is thrown.
FailedEvents(seq) == << DirectGet(seq, "NATS_ERR") >>

\* Fill loop, subject filter mismatch.
FilteredEvents(seq) == << DirectGet(seq, "NATS_OK"), MsgDestroy(seq), CursorStep(seq) >>

\* Variant: the row path advances the cursor without releasing the message.
RowEvents_KeepsMessage(seq) == << DirectGet(seq, "NATS_OK"), CursorStep(seq) >>

\* Fill loop, row written: "Clean up", then count++ and current_seq++.
RowEvents(seq) == << DirectGet(seq, "NATS_OK"), MsgDestroy(seq), CursorStep(seq) >>

----------------------------------------------------------------------------
(* NatsScanExecute: done check and connection phase *)

NoError == [kind |-> "", seq |-> 0]

\* Variant: the diagnostic does not carry the sequence.
FetchDiagnostic_NoSequence(kind, seq) == [kind |-> kind, seq |-> 0]

\* "Failed to fetch message at sequence <seq> ...": the exception thrown when
\* js_DirectGetMsg fails with a status other than NOT_FOUND.
FetchDiagnostic(kind, seq) == [kind |-> kind, seq |-> seq]

BrokerCall(call, status) == << [call |-> call, status |-> status] >>

\* js_GetStreamInfo, when no stream info is held yet.
FetchStreamInfo(g, s_info) ==
    IF g.stream_info.valid
    THEN [gs |-> g, error |-> "", calls |-> << >>]
    ELSE IF s_info # "NATS_OK"
    THEN [gs |-> g, error |-> "stream_info",
          calls |-> BrokerCall("js_GetStreamInfo", s_info)]
    ELSE [gs |-> [g EXCEPT !.stream_info =
                     [valid |-> TRUE, FirstSeq |-> stream.FirstSeq,
                      LastSeq |-> stream.LastSeq]],
          error |-> "", calls |-> BrokerCall("js_GetStreamInfo", s_info)]

\* Variant: an unspecified end_seq is left at its sentinel.
ClampEndSeq_Never(g) == g

\* Variant: the end bound is set to last_seq whatever the caller gave.
ClampEndSeq_Always(g) == [g EXCEPT !.end_seq = g.stream_info.LastSeq]

\* Variant: the end bound is set one past the snapshot's last_seq.
ClampEndSeq_PastSnapshot(g) ==
    IF g.end_seq = UINT64_MAX
    THEN [g EXCEPT !.end_seq = U64(g.stream_info.LastSeq + 1)] ELSE g

\* "Set end_seq if not specified"
ClampEndSeq(g) ==
    IF g.end_seq = UINT64_MAX THEN [g EXCEPT !.end_seq = g.stream_info.LastSeq] ELSE g

\* "Create JetStream context if it doesn't exist"
JetStreamPhase(g, s_js, s_info) ==
    IF g.js
    THEN [gs |-> g, error |-> "", calls |-> << >>]
    ELSE IF s_js # "NATS_OK"
    THEN [gs |-> g, error |-> "jetstream",
          calls |-> BrokerCall("natsConnection_JetStream", s_js)]
    ELSE LET r == FetchStreamInfo([g EXCEPT !.js = TRUE], s_info)
         IN  [gs |-> IF r.error # "" THEN r.gs ELSE ClampEndSeq(r.gs),
              error |-> r.error,
              calls |-> BrokerCall("natsConnection_JetStream", s_js) \o r.calls]

\* Variant: the connection is created on every call.
NeedsConnection_Always(g) == TRUE

\* global_state.conn == nullptr
NeedsConnection(g) == ~g.conn

\* "Create connection if it doesn't exist", then the JetStream phase.
ConnectionPhase(g, s_opts, s_conn, s_js, s_info) ==
    IF ~NeedsConnection(g)
    THEN JetStreamPhase(g, s_js, s_info)
    ELSE IF s_opts # "NATS_OK"
    THEN [gs |-> g, error |-> "options", calls |-> << >>]
    ELSE IF s_conn # "NATS_OK"
    THEN [gs |-> g, error |-> "connect",
          calls |-> BrokerCall("natsConnection_Connect", s_conn)]
    ELSE LET r == JetStreamPhase([g EXCEPT !.conn = TRUE], s_js, s_info)
         IN  [gs |-> r.gs, error |-> r.error,
              calls |-> BrokerCall("natsConnection_Connect", s_conn) \o r.calls]

\* Variant: the done flag is not looked at.
DoneCheck_Never(g) == FALSE

\* "If we're done, return empty chunk"
DoneCheck(g) == g.done

ExecuteEnter ==
    /\ pc = "idle"
    /\ calls < MaxCalls
    /\ IF DoneCheck(gs)
       THEN /\ output' = << >>
            /\ pc' = "idle"
            /\ calls' = calls + 1
            /\ UNCHANGED << gs, error, broker_calls >>
       ELSE \E s_opts, s_conn, s_js, s_info \in BrokerStatuses :
                LET r == ConnectionPhase(gs, s_opts, s_conn, s_js, s_info)
                IN  /\ gs' = r.gs
                    /\ broker_calls' = broker_calls \o r.calls
                    /\ IF r.error # ""
                       THEN /\ pc' = "aborted"
                            /\ error' = [kind |-> r.error, seq |-> 0]
                            /\ calls' = calls + 1
                       ELSE /\ pc' = "resolve"
                            /\ UNCHANGED << error, calls >>
                    /\ UNCHANGED output
    /\ UNCHANGED << args, stream, bind_data, bind_error, return_types, left, right,
                    result_seq, resolving, count, probes, emitted, effective,
                    released, msg_events >>

----------------------------------------------------------------------------
(* ResolveTimestampToSequence *)

TimeBound(which) == IF which = "start" THEN bind_data.start_time ELSE bind_data.end_time

Mid(l, r) == U64(l + (r - l) \div 2)

\* Variant: an absent sequence narrows the right bound.
ResolverStep_GapNarrowsRight(l, r, res, mid, status, msg_time_ns, timestamp_ns) ==
    IF status = "NATS_NOT_FOUND"
    THEN [left |-> l, right |-> U64(mid - 1), result_seq |-> res]
    ELSE IF msg_time_ns >= timestamp_ns
    THEN [left |-> l, right |-> U64(mid - 1), result_seq |-> mid]
    ELSE [left |-> U64(mid + 1), right |-> r, result_seq |-> res]

\* Variant: an absent sequence moves left by one.
ResolverStep_GapStepsByOne(l, r, res, mid, status, msg_time_ns, timestamp_ns) ==
    IF status = "NATS_NOT_FOUND"
    THEN [left |-> U64(l + 1), right |-> r, result_seq |-> res]
    ELSE IF msg_time_ns >= timestamp_ns
    THEN [left |-> l, right |-> U64(mid - 1), result_seq |-> mid]
    ELSE [left |-> U64(mid + 1), right |-> r, result_seq |-> res]

\* Variant: a match keeps mid as the right bound.
ResolverStep_KeepsMid(l, r, res, mid, status, msg_time_ns, timestamp_ns) ==
    IF status = "NATS_NOT_FOUND"
    THEN [left |-> U64(mid + 1), right |-> r, result_seq |-> res]
    ELSE IF msg_time_ns >= timestamp_ns
    THEN [left |-> l, right |-> mid, result_seq |-> mid]
    ELSE [left |-> U64(mid + 1), right |-> r, result_seq |-> res]

\* One iteration of the binary search after the probe of mid was answered.
ResolverStep(l, r, res, mid, status, msg_time_ns, timestamp_ns) ==
    IF status = "NATS_NOT_FOUND"
    THEN [left |-> U64(mid + 1), right |-> r, result_seq |-> res]
    ELSE IF msg_time_ns >= timestamp_ns
    THEN [left |-> l, right |-> U64(mid - 1), result_seq |-> mid]
    ELSE [left |-> U64(mid + 1), right |-> r, result_seq |-> res]

\* The call of the resolver for one time bound: its locals before the loop.
BeginResolve(which) ==
    /\ left' = gs.stream_info.FirstSeq
    /\ right' = gs.stream_info.LastSeq
    /\ result_seq' = UINT64_MAX
    /\ resolving' = which
    /\ pc' = "resolver"

\* Variant: the resolution block is entered without a time bound.
NeedsResolution_WithoutBounds(g, b) == ~g.timestamps_resolved

\* Variant: the flag that records a finished resolution is not looked at.
NeedsResolution_IgnoresFlag(g, b) == b.start_time > 0 \/ b.end_time > 0

\* "Resolve timestamps to sequences if needed (only once)"
NeedsResolution(g, b) ==
    ~g.timestamps_resolved /\ (b.start_time > 0 \/ b.end_time > 0)

ResolveEnter ==
    /\ pc = "resolve"
    /\ IF NeedsResolution(gs, bind_data)
       THEN BeginResolve(IF bind_data.start_time > 0 THEN "start" ELSE "end")
       ELSE /\ pc' = "range_check"
            /\ UNCHANGED << left, right, result_seq, resolving >>
    /\ UNCHANGED << args, stream, bind_data, bind_error, return_types, gs, count,
                    output, probes, emitted, calls, error, effective, released,
                    broker_calls, msg_events >>

ResolveProbe ==
    /\ pc = "resolver"
    /\ left <= right
    /\ \E status \in DirectGetStatuses(Mid(left, right)) :
           /\ probes' = Append(probes, [by |-> "resolver", seq |-> Mid(left, right),
                                        status |-> status, bound |-> resolving])
           /\ msg_events' = msg_events \o ResolverEvents(Mid(left, right), status)
           /\ IF status = "NATS_ERR"
              THEN /\ pc' = "aborted"
                   /\ error' = FetchDiagnostic("resolve_fetch", Mid(left, right))
                   /\ calls' = calls + 1
                   /\ UNCHANGED << left, right, result_seq >>
              ELSE LET msg_time_ns == IF status = "NATS_OK"
                                      THEN stream.msgs[Mid(left, right)].time ELSE 0
                       n == ResolverStep(left, right, result_seq, Mid(left, right),
                                         status, msg_time_ns, TimeBound(resolving))
                   IN  /\ left' = n.left
                       /\ right' = n.right
                       /\ result_seq' = n.result_seq
                       /\ UNCHANGED << pc, error, calls >>
    /\ UNCHANGED << args, stream, bind_data, bind_error, return_types, gs, resolving,
                    count, output, emitted, effective, released,
                    broker_calls >>

\* Variant: the end bound is overwritten whatever the resolver returned.
ApplyEndTime_Always(g, resolved_seq) == [g EXCEPT !.end_seq = resolved_seq]

\* "If resolved_seq is UINT64_MAX, use the last sequence in the stream"
ApplyEndTime(g, resolved_seq) ==
    IF resolved_seq # UINT64_MAX THEN [g EXCEPT !.end_seq = resolved_seq] ELSE g

\* The resolver returns result_seq; the caller applies it to the scan state.
ResolveReturn ==
    /\ pc = "resolver"
    /\ left > right
    /\ IF resolving = "start"
       THEN IF result_seq = UINT64_MAX
            THEN /\ gs' = [gs EXCEPT !.done = TRUE, !.timestamps_resolved = TRUE]
                 /\ output' = << >>
                 /\ pc' = "idle"
                 /\ calls' = calls + 1
                 /\ UNCHANGED << left, right, result_seq, resolving >>
            ELSE IF bind_data.end_time > 0
            THEN /\ gs' = [gs EXCEPT !.current_seq = result_seq]
                 /\ BeginResolve("end")
                 /\ UNCHANGED << output, calls >>
            ELSE /\ gs' = [gs EXCEPT !.current_seq = result_seq,
                                     !.timestamps_resolved = TRUE]
                 /\ pc' = "range_check"
                 /\ UNCHANGED << left, right, result_seq, resolving, output, calls >>
       ELSE /\ gs' = [ApplyEndTime(gs, result_seq) EXCEPT !.timestamps_resolved = TRUE]
            /\ pc' = "range_check"
            /\ UNCHANGED << left, right, result_seq, resolving, output, calls >>
    /\ UNCHANGED << args, stream, bind_data, bind_error, return_types, count, probes,
                    emitted, error, effective, released,
                    broker_calls, msg_events >>

----------------------------------------------------------------------------
(* NatsScanExecute: the batch fill loop *)

\* Variant: the done flag is never set from the cursor.
MarkDone_Never(g) == g

\* "if (current_seq > end_seq) done = true", before the fill loop and after it.
MarkDone(g) == IF g.current_seq > g.end_seq THEN [g EXCEPT !.done = TRUE] ELSE g

\* The early return when the cursor is already past the end bound; otherwise
\* the batch starts empty.
RangeCheck ==
    /\ pc = "range_check"
    /\ effective' = IF effective.set THEN effective
                    ELSE [set |-> TRUE, start |-> gs.current_seq, end |-> gs.end_seq]
    /\ IF gs.current_seq > gs.end_seq
       THEN /\ gs' = MarkDone(gs)
            /\ output' = << >>
            /\ pc' = "idle"
            /\ calls' = calls + 1
            /\ UNCHANGED count
       ELSE /\ count' = 0
            /\ output' = << >>
            /\ pc' = "scan"
            /\ UNCHANGED << gs, calls >>
    /\ UNCHANGED << args, stream, bind_data, bind_error, return_types, left, right,
                    result_seq, resolving, probes, emitted, error, released,
                    broker_calls, msg_events >>

\* Variant: the batch is filled one row past its capacity.
LoopCondition_OneMoreRow(n, g) == n <= max_rows /\ g.current_seq <= g.end_seq

\* The loop condition of the fill loop.
LoopCondition(n, g) == n < max_rows /\ g.current_seq <= g.end_seq

\* Variant: the filter must be a prefix of the subject.
SubjectMatches_Prefix(subject, subject_filter) ==
    \/ subject_filter = << >>
    \/ /\ Len(subject_filter) <= Len(subject)
       /\ SubSeq(subject, 1, Len(subject_filter)) = subject_filter

\* Variant: the test of the search result is inverted.
SubjectMatches_Inverted(subject, subject_filter) ==
    ~(subject_filter # << >> /\ Contains(subject, subject_filter))

\* The subject filter: TRUE when the message is kept.
SubjectMatches(subject, subject_filter) ==
    ~(subject_filter # << >> /\ ~Contains(subject, subject_filter))

\* The decoders that run on a row.
Decoders(b, g) ==
    (IF b.json_fields # << >> THEN {"json"} ELSE {})
    \cup (IF b.proto_fields # << >> /\ g.proto_prototype THEN {"proto"} ELSE {})

\* Columns 5 + i as the two extraction blocks leave them: the JSON block
\* writes first, the protobuf block after it.
ExtractionColumns(b, g, data) ==
    LET json == IF b.json_fields # << >> THEN JsonColumns(b.json_fields, data)
                ELSE << >>
        proto == IF b.proto_fields # << >> /\ g.proto_prototype
                 THEN ProtoColumns(b.proto_fields, b.proto_descriptor, data)
                 ELSE << >>
    IN  [i \in 1..(IF Len(json) > Len(proto) THEN Len(json) ELSE Len(proto)) |->
            IF i <= Len(proto) THEN proto[i] ELSE json[i]]

\* The columns written for a message: metadata, payload, extraction columns.
MakeRow(b, g, msg) ==
    [ seq          |-> g.current_seq,
      subject      |-> msg.subject,
      ts_nats      |-> msg.time \div 1000,
      payload_type |-> IF b.proto_fields # << >> THEN "BLOB" ELSE "VARCHAR",
      payload      |-> IF b.proto_fields # << >> THEN BlobValue(msg.payload)
                       ELSE VarcharValue(msg.payload),
      values       |-> ExtractionColumns(b, g, msg.payload),
      decoders     |-> Decoders(b, g) ]

\* NOT_FOUND: "Message not found at this sequence, skip to next".
SkipAbsent(g) == [g EXCEPT !.current_seq = U64(@ + 1)]

\* A message the subject filter rejects is released and skipped.
SkipFiltered(g) == [g EXCEPT !.current_seq = U64(@ + 1)]

\* Variant: the cursor is not advanced after a row.
AdvanceAfterRow_Stuck(g) == g

\* After a row was written: count++ and current_seq++.
AdvanceAfterRow(g) == [g EXCEPT !.current_seq = U64(@ + 1)]

\* One iteration of the fill loop.
ScanProbe ==
    /\ pc = "scan"
    /\ LoopCondition(count, gs)
    /\ \E status \in DirectGetStatuses(gs.current_seq) :
           /\ probes' = Append(probes, [by |-> "scan", seq |-> gs.current_seq,
                                        status |-> status, bound |-> ""])
           /\ IF status = "NATS_NOT_FOUND"
              THEN /\ gs' = SkipAbsent(gs)
                   /\ msg_events' = msg_events \o AbsentEvents(gs.current_seq)
                   /\ UNCHANGED << pc, error, calls, count, output >>
              ELSE IF status # "NATS_OK"
              THEN /\ pc' = "aborted"
                   /\ error' = FetchDiagnostic("fetch", gs.current_seq)
                   /\ msg_events' = msg_events \o FailedEvents(gs.current_seq)
                   /\ calls' = calls + 1
                   /\ UNCHANGED << gs, count, output >>
              ELSE IF ~SubjectMatches(stream.msgs[gs.current_seq].subject,
                                      bind_data.subject_filter)
              THEN /\ gs' = SkipFiltered(gs)
                   /\ msg_events' = msg_events \o FilteredEvents(gs.current_seq)
                   /\ UNCHANGED << pc, error, calls, count, output >>
              ELSE /\ output' = Append(output,
                                   MakeRow(bind_data, gs, stream.msgs[gs.current_seq]))
                   /\ count' = count + 1
                   /\ gs' = AdvanceAfterRow(gs)
                   /\ msg_events' = msg_events \o RowEvents(gs.current_seq)
                   /\ UNCHANGED << pc, error, calls >>
    /\ UNCHANGED << args, stream, bind_data, bind_error, return_types, left, right,
                    result_seq, resolving, emitted, effective, released,
                    broker_calls >>

\* "Mark as done if we've reached the end" and hand the batch to the engine.
ExecuteReturn ==
    /\ pc = "scan"
    /\ ~LoopCondition(count, gs)
    /\ gs' = MarkDone(gs)
    /\ emitted' = emitted \o output
    /\ calls' = calls + 1
    /\ pc' = "idle"
    /\ UNCHANGED << args, stream, bind_data, bind_error, return_types, left, right,
                    result_seq, resolving, count, output, probes, error, effective,
                    released,
                    broker_calls, msg_events >>

----------------------------------------------------------------------------
(* ~NatsScanGlobalState *)

\* Variant: the connection is released first.
ReleaseOrder_ConnectionFirst(g) ==
    (IF g.conn THEN << "conn" >> ELSE << >>)
    \o (IF g.js THEN << "js" >> ELSE << >>)
    \o (IF g.stream_info.valid THEN << "stream_info" >> ELSE << >>)

\* The handles the destructor releases, in the order it releases them.
ReleaseOrder(g) ==
    (IF g.stream_info.valid THEN << "stream_info" >> ELSE << >>)
    \o (IF g.js THEN << "js" >> ELSE << >>)
    \o (IF g.conn THEN << "conn" >> ELSE << >>)

\* The engine drops the global state between calls or after an abort.
Destroy ==
    /\ pc \in {"idle", "aborted"}
    /\ released' = released \o ReleaseOrder(gs)
    /\ gs' = [gs EXCEPT !.stream_info = NullStreamInfo, !.js = FALSE, !.conn = FALSE]
    /\ pc' = "destroyed"
    /\ UNCHANGED << args, stream, bind_data, bind_error, return_types, left, right,
                    result_seq, resolving, count, output, probes, emitted, calls,
                    error, effective, broker_calls, msg_events >>

----------------------------------------------------------------------------
(* Inputs: the streams and the calls the model explores *)

S_ax == << "a", ".", "x" >>
S_bx == << "b", ".", "x" >>
S_ay == << "a", ".", "y" >>

Subjects == {S_ax, S_bx, S_ay}
Filters == {<< >>, << "a", "." >>, << "x" >>}

\* first_seq/last_seq as the broker reports them: 0/0 for a stream that never
\* held a message, first_seq = last_seq + 1 for a purged one.
Snapshots ==
    {sn \in [FirstSeq : 0..(MaxSeq + 1), LastSeq : 0..MaxSeq] :
        \/ sn.FirstSeq = 0 /\ sn.LastSeq = 0
        \/ 1 <= sn.FirstSeq /\ sn.FirstSeq <= sn.LastSeq + 1}

\* Present messages lie within the snapshot; any of its sequences may be absent.
WithinSnapshot(sn, msgs) ==
    \A q \in 1..MaxSeq : msgs[q].present => (sn.FirstSeq <= q /\ q <= sn.LastSeq)

\* Timestamps of present messages never decrease with the sequence.
NonDecreasing(msgs) ==
    \A p, q \in 1..MaxSeq :
        (p < q /\ msgs[p].present /\ msgs[q].present) => msgs[p].time <= msgs[q].time

MakeStream(sn, msgs) == [FirstSeq |-> sn.FirstSeq, LastSeq |-> sn.LastSeq, msgs |-> msgs]

\* Streams with varied subjects; the message at sequence q is stamped q us.
SubjectMsgs(subj) ==
    [q \in 1..MaxSeq |->
        IF subj[q] = << >> THEN Absent
        ELSE [present |-> TRUE, subject |-> subj[q], time |-> 1000 * q,
              payload |-> << >>]]

SubjectStreams ==
    {st \in {MakeStream(sn, SubjectMsgs(subj)) :
                sn \in Snapshots, subj \in [1..MaxSeq -> Subjects \cup {<< >>}]} :
        WithinSnapshot(st, st.msgs)}

\* Streams with varied timestamps (0 = absent) and one subject.
TimedMsgs(tm) ==
    [q \in 1..MaxSeq |->
        IF tm[q] = 0 THEN Absent
        ELSE [present |-> TRUE, subject |-> S_ax, time |-> 1000 * tm[q],
              payload |-> << >>]]

TimedStreams ==
    {st \in {MakeStream(sn, TimedMsgs(tm)) :
                sn \in Snapshots, tm \in [1..MaxSeq -> 0..MaxTime]} :
        WithinSnapshot(st, st.msgs) /\ NonDecreasing(st.msgs)}

\* A stream of two messages, for the calls that vary the bind parameters.
SmallStream ==
    MakeStream([FirstSeq |-> 1, LastSeq |-> 2],
               [q \in 1..MaxSeq |->
                   IF q = 1 THEN [present |-> TRUE, subject |-> S_ax, time |-> 1000,
                                  payload |-> << >>]
                   ELSE IF q = 2 THEN [present |-> TRUE, subject |-> S_bx, time |-> 2000,
                                       payload |-> << >>]
                   ELSE Absent])

DefaultArgs ==
    [ given |-> {}, subject |-> << >>, start_seq |-> 0, end_seq |-> UINT64_MAX,
      start_time |-> 0, end_time |-> 0, json_extract |-> << >>, proto_file |-> "",
      proto_message |-> "", proto_extract |-> << >> ]

\* Calls with a sequence window and a subject filter.
SequenceArgs ==
    {[DefaultArgs EXCEPT !.given = {"subject", "start_seq", "end_seq"},
                         !.subject = f, !.start_seq = a, !.end_seq = e] :
        f \in Filters, a \in 0..(MaxSeq + 1), e \in (0..(MaxSeq + 1)) \cup {UINT64_MAX}}

\* Calls with a time window (timestamps in microseconds).
TimeArgs ==
    {[DefaultArgs EXCEPT !.given = {"start_time", "end_time"},
                         !.start_time = a, !.end_time = e] :
        a \in 0..(MaxTime + 1), e \in 0..(MaxTime + 1)}

\* Calls that supply any subset of the four window parameters.
WindowArgs ==
    {[DefaultArgs EXCEPT !.given = g, !.start_seq = a, !.end_seq = e,
                         !.start_time = ta, !.end_time = te] :
        g \in SUBSET {"start_seq", "end_seq", "start_time", "end_time"},
        a \in {0, 1}, e \in {2, UINT64_MAX}, ta \in {-1, 0, 1}, te \in {0, 2}}

ProtoPaths ==
    { << >>, << F_id >>, << F_id, F_location \o Dot \o F_zone >>, << F_location >>,
      << F_id \o Dot \o F_zone >>, << F_zone >>, << F_location \o Dot >> }

\* Calls that vary the extraction parameters.
ExtractionArgs ==
    {[DefaultArgs EXCEPT !.given = {"json_extract", "proto_file", "proto_message",
                                    "proto_extract"},
                         !.json_extract = j, !.proto_file = pf, !.proto_message = pm,
                         !.proto_extract = pe] :
        j \in {<< >>, << << "a" >> >>, << << "a" >>, << "b" >> >>},
        pf \in {"", "telemetry.proto", "missing.proto"},
        pm \in {"", "Telemetry", "Nope"},
        pe \in ProtoPaths}

\* JSON payloads: the example document; numbers that need rounding or not;
\* a nested array and spaces; a repeated key; a root that is no object; two
\* texts that are not JSON.
J_example ==
    Text(<< "{", "\"", "a", "\"", ":", "\"", "h", "i", "\"", ",",
            "\"", "b", "\"", ":", "4", "2", ",",
            "\"", "c", "\"", ":", "t", "r", "u", "e", ",",
            "\"", "d", "\"", ":", "n", "u", "l", "l", ",",
            "\"", "e", "\"", ":", "{", "\"", "x", "\"", ":", "1", "}", "}" >>)

J_numbers ==
    Text(<< "{", "\"", "a", "\"", ":", "0", ".", "5", ",",
            "\"", "b", "\"", ":", "1", ".", "2", "3", "4", "5", "6", "7", "8", ",",
            "\"", "c", "\"", ":", "f", "a", "l", "s", "e", "}" >>)

J_nested ==
    Text(<< "{", " ", "\"", "e", "\"", " ", ":", " ", "[", "1", ",", " ",
            "{", "\"", "x", "\"", ":", " ", "0", ".", "5", "0", "}", ",", " ",
            "[", "]", ",", "n", "u", "l", "l", "]", "}", " " >>)

J_repeated ==
    Text(<< "{", "\"", "a", "\"", ":", "1", ",", "\"", "a", "\"", ":", "\"", "x", "\"", "}" >>)

J_array == Text(<< "[", "\"", "a", "\"", "]" >>)

J_truncated == Text(<< "{", "\"", "a", "\"", ":", "\"", "h", "i", "\"" >>)

J_trailing == Text(<< "{", "\"", "a", "\"", ":", "1", ",", "}" >>)

JsonPayloads ==
    {J_example, J_numbers, J_nested, J_repeated, J_array, J_truncated, J_trailing}

\* Protobuf payloads for Telemetry: id = 7 only; nothing; id and
\* location.zone; an empty location; location twice; a two-byte varint; an
\* unknown field and id with another wire type; three that do not parse.
P_id == << 8, 7 >>
P_empty == << >>
P_full == << 8, 7, 18, 3, 10, 1, 122 >>
P_location == << 18, 0 >>
P_merged == << 18, 0, 18, 3, 10, 1, 122 >>
P_wide == << 8, 172, 2 >>
P_unknown == << 24, 1, 10, 1, 55 >>
P_truncated == << 8 >>
P_overrun == << 8, 7, 18, 5, 10 >>
P_bad_nested == << 18, 1, 10 >>

ProtoPayloads ==
    {P_id, P_empty, P_full, P_location, P_merged, P_wide, P_unknown, P_truncated,
     P_overrun, P_bad_nested}

\* Streams of two messages with the given payloads.
PayloadStreams(payloads) ==
    {MakeStream([FirstSeq |-> 1, LastSeq |-> 2],
                [q \in 1..MaxSeq |->
                    IF q = 1 THEN [present |-> TRUE, subject |-> S_ax, time |-> 1000,
                                   payload |-> p1]
                    ELSE IF q = 2 THEN [present |-> TRUE, subject |-> S_bx,
                                        time |-> 2000, payload |-> p2]
                    ELSE Absent]) :
        p1 \in payloads, p2 \in payloads}

\* Calls that extract JSON fields.
JsonArgs ==
    {[DefaultArgs EXCEPT !.given = {"json_extract"}, !.json_extract = j] :
        j \in {<< << "a" >>, << "b" >>, << "c" >>, << "d" >>, << "e" >>, << "f" >> >>,
               << << "e" >> >>}}

\* Calls that extract protobuf fields of Telemetry.
ProtoArgs ==
    {[DefaultArgs EXCEPT !.given = {"proto_file", "proto_message", "proto_extract"},
                         !.proto_file = "telemetry.proto",
                         !.proto_message = "Telemetry", !.proto_extract = pe] :
        pe \in {<< F_id, F_location \o Dot \o F_zone >>, << F_location >>}}

NoEffective == [set |-> FALSE, start |-> 0, end |-> 0]

\* The state before bind, whatever the stream and the call are.
BeforeBind ==
    /\ pc = "bind"
    /\ bind_data = NoBindData
    /\ bind_error = ""
    /\ return_types = << >>
    /\ gs = NewGlobalState
    /\ left = 0
    /\ right = 0
    /\ result_seq = 0
    /\ resolving = ""
    /\ count = 0
    /\ output = << >>
    /\ probes = << >>
    /\ emitted = << >>
    /\ calls = 0
    /\ error = NoError
    /\ effective = NoEffective
    /\ released = << >>
    /\ broker_calls = << >>
    /\ msg_events = << >>

Init ==
    /\ \/ stream \in SubjectStreams /\ args \in SequenceArgs
       \/ stream \in TimedStreams /\ args \in TimeArgs
       \/ stream = SmallStream /\ args \in WindowArgs \cup ExtractionArgs
       \/ stream \in PayloadStreams(JsonPayloads) /\ args \in JsonArgs
       \/ stream \in PayloadStreams(ProtoPayloads) /\ args \in ProtoArgs
    /\ BeforeBind

Next ==
    \/ NatsScanBind
    \/ NatsScanInitGlobal
    \/ ExecuteEnter
    \/ ResolveEnter
    \/ ResolveProbe
    \/ ResolveReturn
    \/ RangeCheck
    \/ ScanProbe
    \/ ExecuteReturn
    \/ Destroy

Spec == Init /\ [][Next]_vars

\* The engine's pulls: every step but the destruction of the scan state.
Pull ==
    \/ NatsScanBind
    \/ NatsScanInitGlobal
    \/ ExecuteEnter
    \/ ResolveEnter
    \/ ResolveProbe
    \/ ResolveReturn
    \/ RangeCheck
    \/ ScanProbe
    \/ ExecuteReturn

\* Every snapshot with every set of present sequences; subjects alternate
\* and the message at sequence q is stamped q us.
GapStreams ==
    {MakeStream(sn, [q \in 1..MaxSeq |->
                        IF q \in held
                        THEN [present |-> TRUE,
                              subject |-> IF q % 2 = 1 THEN S_ax ELSE S_bx,
                              time |-> 1000 * q, payload |-> << >>]
                        ELSE Absent]) :
        sn \in Snapshots, held \in SUBSET (1..MaxSeq)} 

\* Sequence windows with and without a subject filter, and time windows.
PullArgs ==
    {[DefaultArgs EXCEPT !.given = {"subject", "start_seq", "end_seq"},
                         !.subject = f, !.start_seq = a, !.end_seq = e] :
        f \in {<< >>, << "a", "." >>}, a \in {0, 2},
        e \in {1, MaxSeq + 1, UINT64_MAX}}
    \cup {[DefaultArgs EXCEPT !.given = {"start_time", "end_time"},
                              !.start_time = a, !.end_time = e] :
            a \in {0, 2, MaxTime + 1}, e \in {0, 2}}

PullInit ==
    /\ stream \in {st \in GapStreams : WithinSnapshot(st, st.msgs)}
    /\ args \in PullArgs
    /\ BeforeBind

\* The engine keeps pulling on the same thread and every step of a call that
\* can be taken is taken.
FairSpec == PullInit /\ [][Next]_vars /\ WF_vars(Pull)

----------------------------------------------------------------------------
(* The broker changing the stream while the scan runs *)

\* The message a publisher appends at sequence q.
Published(q) ==
    [present |-> TRUE, subject |-> IF q % 2 = 1 THEN S_ax ELSE S_bx,
     time |-> 1000 * q, payload |-> << >>]

\* A publisher appends a message: it gets the next sequence.
BrokerAppend ==
    /\ stream.LastSeq < MaxSeq
    /\ stream' = [stream EXCEPT
                    !.LastSeq = @ + 1,
                    !.FirstSeq = IF @ = 0 THEN 1 ELSE @,
                    !.msgs[stream.LastSeq + 1] = Published(stream.LastSeq + 1)]
    /\ UNCHANGED << args, pc, bind_data, bind_error, return_types, gs, left, right,
                    result_seq, resolving, count, output, probes, emitted, calls,
                    error, effective, released, broker_calls, msg_events >>

\* first_seq after a removal: the smallest sequence still held, or
\* last_seq + 1 when none is.
FirstHeld(msgs, last) ==
    IF \E q \in 1..last : msgs[q].present
    THEN Min({q \in 1..last : msgs[q].present})
    ELSE last + 1

\* A message is purged or deleted, or expires.
BrokerPurge ==
    /\ \E q \in 1..MaxSeq :
          /\ stream.msgs[q].present
          /\ stream' = [stream EXCEPT
                          !.msgs[q] = Absent,
                          !.FirstSeq = FirstHeld([stream.msgs EXCEPT ![q] = Absent],
                                                 stream.LastSeq)]
    /\ UNCHANGED << args, pc, bind_data, bind_error, return_types, gs, left, right,
                    result_seq, resolving, count, output, probes, emitted, calls,
                    error, effective, released, broker_calls, msg_events >>

\* Streams of at most two messages, so that publishers can append.
GrowingStreams ==
    {st \in GapStreams : WithinSnapshot(st, st.msgs) /\ st.LastSeq <= 2
                         /\ st.FirstSeq <= 1}

\* Calls without an end bound, and one with end_seq.
OpenEndedArgs ==
    {[DefaultArgs EXCEPT !.given = {"subject", "start_seq", "start_time"},
                         !.subject = f, !.start_seq = a, !.start_time = t] :
        f \in {<< >>, << "a", "." >>}, a \in {0, 2}, t \in {0, 1}}
    \cup {[DefaultArgs EXCEPT !.given = {"end_seq"}, !.end_seq = MaxSeq]}

ConcurrentInit ==
    /\ stream \in GrowingStreams
    /\ args \in OpenEndedArgs
    /\ BeforeBind

ConcurrentNext == Next \/ BrokerAppend \/ BrokerPurge

\* The scan and the broker run concurrently; only the engine's pulls are fair.
ConcurrentSpec == ConcurrentInit /\ [][ConcurrentNext]_vars /\ WF_vars(Pull)

----------------------------------------------------------------------------
(* Vocabulary of the properties *)

PresentSeqs == {q \in 1..MaxSeq : Present(q)}

\* No sequence of the snapshot is absent.
NoGaps == \A q \in stream.FirstSeq..stream.LastSeq : Present(q)

StrictlyIncreasing ==
    \A p, q \in PresentSeqs : p < q => stream.msgs[p].time < stream.msgs[q].time

\* The query ran to DONE and the call that set DONE has returned.
Finished == pc = "idle" /\ gs.done /\ error = NoError

EmittedSeqs == {emitted[i].seq : i \in 1..Len(emitted)}

\* needle occurs in s: s = pre \o needle \o post for some pre and post.
IsSubstring(needle, s) ==
    \E i \in 0..Len(s) : \E j \in i..Len(s) : SubSeq(s, i + 1, j) = needle

\* The present sequences of a set, in ascending order.
RECURSIVE Ascending(_)
Ascending(S) == IF S = {} THEN << >> ELSE << Min(S) >> \o Ascending(S \ {Min(S)})

\* The rows of the query so far, the unfinished batch included.
AllRows == IF pc = "scan" THEN emitted \o output ELSE emitted

----------------------------------------------------------------------------
(* Time windows *)

\* C1: when start_time and end_time are both set on a stream without gaps
\* whose timestamps strictly increase, the finished scan has emitted exactly
\* the messages whose timestamp t satisfies start_time <= t <= end_time.
C1_InclusiveTimeWindow ==
    (/\ Finished
     /\ bind_data.start_time > 0
     /\ bind_data.end_time > 0
     /\ NoGaps
     /\ StrictlyIncreasing)
    => EmittedSeqs = {q \in PresentSeqs :
                        /\ bind_data.start_time <= stream.msgs[q].time
                        /\ stream.msgs[q].time <= bind_data.end_time}

\* The smallest present sequence stamped at or after the target, or "none".
SmallestAtOrAfter(timestamp_ns) ==
    LET at_or_after == {q \in PresentSeqs : stream.msgs[q].time >= timestamp_ns}
    IN  IF at_or_after = {} THEN UINT64_MAX ELSE Min(at_or_after)

\* C2: for every snapshot, with any set of absent sequences and non-decreasing
\* timestamps, the resolver returns the smallest present sequence whose
\* timestamp is at or after the target, and "none" only when there is none.
C2_ResolverReturnsSmallest ==
    (pc = "resolver" /\ left > right)
    => result_seq = SmallestAtOrAfter(TimeBound(resolving))

----------------------------------------------------------------------------
(* Sequence windows, ordering and the subject filter *)

NoTimeBounds == bind_data.start_time <= 0 /\ bind_data.end_time <= 0

\* The end bound a sequence-window query scans to.
ExpectedEndSeq ==
    IF bind_data.end_seq = UINT64_MAX THEN stream.LastSeq ELSE bind_data.end_seq

\* C3: for a sequence-window query the rows emitted until DONE are exactly the
\* present messages with sequence in [max(start_seq, 1), effective_end_seq]
\* whose subject passes the filter, each once, and nothing else.
C3_SequenceWindowRows ==
    (Finished /\ NoTimeBounds)
    => /\ [i \in 1..Len(emitted) |-> emitted[i].seq] =
            Ascending({q \in PresentSeqs :
                /\ (IF bind_data.start_seq > 1 THEN bind_data.start_seq ELSE 1) <= q
                /\ q <= ExpectedEndSeq
                /\ \/ bind_data.subject_filter = << >>
                   \/ IsSubstring(bind_data.subject_filter, stream.msgs[q].subject)})
       /\ \A i \in 1..Len(emitted) :
            emitted[i].subject = stream.msgs[emitted[i].seq].subject

\* A finished sequence-window scan over a stream whose sequence 2 is absent.
C3_Witness ==
    /\ Finished
    /\ NoTimeBounds
    /\ bind_data.start_seq = 1
    /\ bind_data.end_seq = 3
    /\ ~Present(2)
    /\ [i \in 1..Len(emitted) |-> emitted[i].seq] = << 1, 3 >>

\* C4: over the whole query the emitted seq values strictly increase and lie
\* within the cursor and end bound as they stood after connection and range
\* resolution.
C4_AscendingWithinBounds ==
    /\ \A i, j \in 1..Len(AllRows) : i < j => AllRows[i].seq < AllRows[j].seq
    /\ \A i \in 1..Len(AllRows) :
        /\ effective.set
        /\ effective.start <= AllRows[i].seq
        /\ AllRows[i].seq <= effective.end

\* A finished query whose rows span more than one batch.
C4_Witness == Finished /\ Len(emitted) > max_rows /\ calls >= 2

\* A message the filter rejects: answered OK, subject without the filter.
FilterRejects ==
    /\ pc = "scan"
    /\ Len(probes') = Len(probes) + 1
    /\ probes'[Len(probes')].status = "NATS_OK"
    /\ bind_data.subject_filter # << >>
    /\ ~IsSubstring(bind_data.subject_filter, stream.msgs[gs.current_seq].subject)

\* C5: with a non-empty subject filter F every emitted subject contains F, a
\* present in-window message whose subject contains F is never dropped, and a
\* rejected message advances the cursor by one without producing a row.
C5_SubjectFilter ==
    /\ [](bind_data.subject_filter # << >> =>
            /\ \A i \in 1..Len(AllRows) :
                 IsSubstring(bind_data.subject_filter, AllRows[i].subject)
            /\ Finished =>
                 \A q \in PresentSeqs :
                    (/\ effective.set
                     /\ effective.start <= q
                     /\ q <= effective.end
                     /\ IsSubstring(bind_data.subject_filter, stream.msgs[q].subject))
                    => q \in EmittedSeqs)
    /\ [][FilterRejects =>
            /\ gs'.current_seq = gs.current_seq + 1
            /\ count' = count
            /\ output' = output
            /\ emitted' = emitted
            /\ pc' = "scan"]_vars

\* A finished scan with filter "x" that kept a message and rejected another.
C5_Witness ==
    /\ Finished
    /\ bind_data.subject_filter = << "x" >>
    /\ \E i \in 1..Len(emitted) : emitted[i].subject = S_bx
    /\ \E k \in 1..Len(probes) :
        /\ probes[k].status = "NATS_OK"
        /\ probes[k].seq \notin EmittedSeqs

\* A probe answered NOT_FOUND.
NotFoundAnswer ==
    /\ Len(probes') = Len(probes) + 1
    /\ probes'[Len(probes')].status = "NATS_NOT_FOUND"

\* C6: NOT_FOUND is never an error and never a row: the scan advances the
\* cursor by one and counts no row, the resolver moves left to mid + 1, and
\* the query continues.
C6_NotFoundIsSkipped ==
    /\ [](\A i \in 1..Len(AllRows) : Present(AllRows[i].seq))
    /\ [][NotFoundAnswer =>
            /\ error' = error
            /\ pc' = pc
            /\ output' = output
            /\ emitted' = emitted
            /\ calls' = calls
            /\ pc = "scan" =>
                 /\ probes'[Len(probes')].by = "scan"
                 /\ probes'[Len(probes')].seq = gs.current_seq
                 /\ gs'.current_seq = gs.current_seq + 1
                 /\ count' = count
            /\ pc = "resolver" =>
                 /\ probes'[Len(probes')].by = "resolver"
                 /\ left' = probes'[Len(probes')].seq + 1
                 /\ right' = right
                 /\ result_seq' = result_seq
                 /\ gs' = gs]_vars

\* A finished query in which the resolver and the scan both met a gap.
C6_Witness ==
    /\ Finished
    /\ emitted # << >>
    /\ \E k \in 1..Len(probes) :
        probes[k].by = "resolver" /\ probes[k].status = "NATS_NOT_FOUND"
    /\ \E k \in 1..Len(probes) :
        probes[k].by = "scan" /\ probes[k].status = "NATS_NOT_FOUND"

----------------------------------------------------------------------------
(* Binding *)

Bound == pc \notin {"bind", "bind_error"}

C8_OneExtraction ==
    /\ (/\ pc # "bind"
        /\ Named("json_extract", << >>) # << >>
        /\ Named("proto_extract", << >>) # << >>)
       => pc = "bind_error"
    /\ Bound => ~(bind_data.json_fields # << >> /\ bind_data.proto_fields # << >>)
    /\ \A i \in 1..Len(AllRows) : Cardinality(AllRows[i].decoders) <= 1

\* Bind rejected a call for giving both extractions.
C8_Witness == pc = "bind_error" /\ bind_error = "json_and_proto"

\* C9: binding fails whenever proto_extract is non-empty and proto_file or
\* proto_message is empty; a bind record with a protobuf field path has both
\* non-empty and a non-null descriptor.
C9_ProtoParametersPresent ==
    /\ (/\ pc # "bind"
        /\ Named("proto_extract", << >>) # << >>
        /\ Named("proto_file", "") = "" \/ Named("proto_message", "") = "")
       => pc = "bind_error"
    /\ (Bound /\ bind_data.proto_fields # << >>) =>
         /\ bind_data.proto_file # ""
         /\ bind_data.proto_message # ""
         /\ bind_data.proto_descriptor # ""

\* A bind record with two protobuf field paths.
C9_Witness ==
    /\ Bound
    /\ Len(bind_data.proto_fields) = 2
    /\ bind_data.proto_descriptor = "Telemetry"

----------------------------------------------------------------------------
(* Empty window *)

\* C10: when start_seq exceeds the stream's last_seq and end_seq is not
\* specified, no probe is issued and no row emitted, and the first execution
\* call that completes leaves the scan DONE with an empty batch.
C10_EmptyWindow ==
    (Bound /\ bind_data.start_seq > stream.LastSeq /\ bind_data.end_seq = UINT64_MAX)
    => /\ probes = << >>
       /\ AllRows = << >>
       /\ (calls >= 1 /\ error = NoError) => (gs.done /\ output = << >>)

\* first_seq = 2, last_seq = 3, start_seq = 4: DONE after the first call.
C10_Witness ==
    /\ pc = "idle"
    /\ calls = 1
    /\ gs.done
    /\ stream.FirstSeq = 2
    /\ stream.LastSeq = 3
    /\ bind_data.start_seq = 4
    /\ bind_data.end_seq = UINT64_MAX

----------------------------------------------------------------------------
(* Payload decoding *)

\* The payload does not decode under the extraction the query asked for.
DecodeFails(data) ==
    \/ bind_data.json_fields # << >> /\ yyjson_read(data).kind = "none"
    \/ /\ bind_data.proto_fields # << >>
       /\ ~ParseFromArray(bind_data.proto_descriptor, data)

ExtractionCount ==
    IF bind_data.json_fields # << >> THEN Len(bind_data.json_fields)
    ELSE Len(bind_data.proto_fields)

\* Some row of the query has a payload that did not decode.
SomeRowFailed == \E i \in 1..Len(AllRows) : DecodeFails(AllRows[i].payload.text)

\* The step writes the row of a message whose payload does not decode.
RowOfFailedDecode ==
    /\ pc = "scan"
    /\ Len(output') = Len(output) + 1
    /\ DecodeFails(stream.msgs[gs.current_seq].payload)

\* C11: a payload that fails to decode never aborts the query: its row is
\* emitted with its metadata columns and the raw payload, every extraction
\* column of that row is null, the cursor advances by one, and the extraction
\* columns of the other rows keep their values.
C11_DecodeFailureNullsRow ==
    /\ [](\A i \in 1..Len(AllRows) :
            /\ AllRows[i].subject = stream.msgs[AllRows[i].seq].subject
            /\ AllRows[i].ts_nats * 1000 = stream.msgs[AllRows[i].seq].time
            /\ AllRows[i].payload.text = stream.msgs[AllRows[i].seq].payload
            /\ DecodeFails(AllRows[i].payload.text) =>
                 /\ Len(AllRows[i].values) = ExtractionCount
                 /\ \A c \in 1..ExtractionCount : AllRows[i].values[c].type = "NULL"
            /\ (SomeRowFailed /\ AllRows[i].payload.text = J_example
                /\ bind_data.json_fields # << >>
                /\ bind_data.json_fields[1] = << "a" >>) =>
                 AllRows[i].values[1] = VarcharValue(Text(<< "h", "i" >>))
            /\ (SomeRowFailed /\ AllRows[i].payload.text = P_id
                /\ bind_data.proto_fields # << >> /\ bind_data.proto_fields[1] = F_id) =>
                 AllRows[i].values[1] = NumericValue("BIGINT", 7))
    /\ [][RowOfFailedDecode =>
            /\ error' = error
            /\ pc' = "scan"
            /\ count' = count + 1
            /\ gs'.current_seq = gs.current_seq + 1
            /\ output'[Len(output')].seq = gs.current_seq]_vars

\* A finished JSON query whose first payload is truncated and whose second
\* is the example document.
C11_Witness ==
    /\ Finished
    /\ Len(emitted) = 2
    /\ Len(bind_data.json_fields) = 6
    /\ emitted[1].payload.text = J_truncated
    /\ \A c \in 1..6 : emitted[1].values[c] = NullValue
    /\ emitted[2].payload.text = J_example
    /\ emitted[2].values[1] = VarcharValue(Text(<< "h", "i" >>))

----------------------------------------------------------------------------
(* Lifecycle *)

\* The lifecycle state of the query: 0 UNINITIALISED, 1 CONNECTED, 2 RESOLVED,
\* 3 SCANNING, 4 DONE.
LifecyclePhase ==
    IF gs.done THEN 4
    ELSE IF effective.set THEN 3
    ELSE IF pc = "range_check" \/ gs.timestamps_resolved THEN 2
    ELSE IF gs.conn /\ gs.js /\ gs.stream_info.valid THEN 1
    ELSE 0

\* C12: DONE is absorbing: once the done flag is set, a later execution call
\* emits an empty batch, issues no connect, stream-info or direct-get request
\* and leaves the cursor and the end bound alone; the lifecycle never moves
\* backwards while the scan state lives.
C12_DoneIsAbsorbing ==
    /\ [][(gs.done /\ pc' # "destroyed") =>
            /\ gs'.done
            /\ gs'.current_seq = gs.current_seq
            /\ gs'.end_seq = gs.end_seq
            /\ probes' = probes
            /\ broker_calls' = broker_calls
            /\ emitted' = emitted
            /\ calls' # calls => output' = << >>]_vars
    /\ [][pc' # "destroyed" => LifecyclePhase' >= LifecyclePhase]_vars

\* Three more calls were made after the call that emitted two rows and set
\* DONE.
C12_Witness ==
    /\ Finished
    /\ calls = 4
    /\ Len(emitted) = 2
    /\ Len(probes) = 2
    /\ output = << >>

----------------------------------------------------------------------------
(* Probes of the fill loop *)

ScanProbes == {k \in 1..Len(probes) : probes[k].by = "scan"}

\* Probes of the fill loop answered NOT_FOUND.
AbsentProbes == {k \in ScanProbes : probes[k].status = "NATS_NOT_FOUND"}

\* Probes of the fill loop that fetched a message the subject filter rejects.
RejectedProbes ==
    {k \in ScanProbes :
        /\ probes[k].status = "NATS_OK"
        /\ bind_data.subject_filter # << >>
        /\ ~IsSubstring(bind_data.subject_filter, stream.msgs[probes[k].seq].subject)}

\* C13 as stated: over a whole query the fill loop issues as many direct-get
\* probes as rows are emitted, whatever the stream holds and the filter is.
C13_ProbesEqualRows == Finished => Cardinality(ScanProbes) = Len(emitted)

\* C13, amended: the fill loop issues one direct-get probe per sequence it
\* visits, not per row: no sequence is probed twice, every row comes from
\* exactly one probe, of its own sequence and answered with the message, and
\* over a whole query the probes number the rows emitted plus the absent
\* sequences skipped plus the messages the subject filter rejected.
C13_OneProbePerVisitedSequence ==
    /\ \A j, k \in ScanProbes : probes[j].seq = probes[k].seq => j = k
    /\ \A i \in 1..Len(AllRows) :
         \E k \in ScanProbes :
            probes[k].seq = AllRows[i].seq /\ probes[k].status = "NATS_OK"
    /\ Finished =>
         Cardinality(ScanProbes) =
            Len(emitted) + Cardinality(AbsentProbes) + Cardinality(RejectedProbes)

\* A finished query that emitted one row, skipped an absent sequence and
\* rejected one message.
C13_Witness ==
    /\ Finished
    /\ Len(emitted) = 1
    /\ Cardinality(AbsentProbes) = 1
    /\ Cardinality(RejectedProbes) = 1
    /\ Cardinality(ScanProbes) = 3

----------------------------------------------------------------------------
(* Acquisition and release of the native handles *)

CallsOf(name) == {k \in 1..Len(broker_calls) : broker_calls[k].call = name}

AcquisitionOrder ==
    << "natsConnection_Connect", "natsConnection_JetStream", "js_GetStreamInfo" >>

\* C14: over all execution calls of a query the connection, the JetStream
\* context and the stream info are each requested at most once, in that
\* order, during the first execution call and before any direct-get probe.
C14_AcquiredOnceInOrder ==
    /\ [](/\ \A name \in {AcquisitionOrder[n] : n \in 1..3} :
               Cardinality(CallsOf(name)) <= 1
          /\ Len(broker_calls) <= 3
          /\ \A k \in 1..Len(broker_calls) :
               /\ broker_calls[k].call = AcquisitionOrder[k]
               /\ k < Len(broker_calls) => broker_calls[k].status = "NATS_OK"
          /\ probes # << >> =>
               /\ Len(broker_calls) = 3
               /\ broker_calls[3].status = "NATS_OK"
               /\ pc # "destroyed" => (gs.conn /\ gs.js /\ gs.stream_info.valid))
    /\ [][broker_calls' # broker_calls => (calls = 0 /\ probes = << >>)]_vars

\* A query of three execution calls that connected once.
C14_Witness ==
    /\ Finished
    /\ calls = 3
    /\ Len(emitted) = 3
    /\ Len(broker_calls) = 3

\* The request for a handle was made and succeeded.
Acquired(name) ==
    \E k \in 1..Len(broker_calls) :
        broker_calls[k].call = name /\ broker_calls[k].status = "NATS_OK"

\* C15: when the scan state is destroyed, at whatever point of the query and
\* also after an error, each handle that was acquired is released once, stream
\* info first, then the JetStream context, then the connection; a handle that
\* was never acquired is not released, and nothing is released before.
C15_ReleasedOnceInOrder ==
    /\ pc # "destroyed" => released = << >>
    /\ pc = "destroyed" =>
         released =
            (IF Acquired("js_GetStreamInfo") THEN << "stream_info" >> ELSE << >>)
            \o (IF Acquired("natsConnection_JetStream") THEN << "js" >> ELSE << >>)
            \o (IF Acquired("natsConnection_Connect") THEN << "conn" >> ELSE << >>)

\* The state is destroyed after the stream-info request failed: the JetStream
\* context and the connection are released, in that order.
C15_Witness ==
    /\ pc = "destroyed"
    /\ error.kind = "stream_info"
    /\ released = << "js", "conn" >>

----------------------------------------------------------------------------
(* Declared and written column types *)

\* Every kind a protobuf field can have.
FieldKinds ==
    { "TYPE_DOUBLE", "TYPE_FLOAT", "TYPE_INT64", "TYPE_UINT64", "TYPE_INT32",
      "TYPE_FIXED64", "TYPE_FIXED32", "TYPE_BOOL", "TYPE_STRING", "TYPE_GROUP",
      "TYPE_MESSAGE", "TYPE_BYTES", "TYPE_UINT32", "TYPE_ENUM", "TYPE_SFIXED32",
      "TYPE_SFIXED64", "TYPE_SINT32", "TYPE_SINT64" }

\* A field of the given kind, with field number 1.
KindField(kind) ==
    [ name |-> << "f" >>, type |-> kind, number |-> 1,
      message_type |-> IF kind = "TYPE_MESSAGE" THEN "Loc" ELSE "" ]

\* Messages that leave field 1 unset or set it in each wire type.
KindMessages ==
    { ParsedMessage(<< >>), ParsedMessage(<< 8, 7 >>), ParsedMessage(<< 10, 1, 122 >>),
      ParsedMessage(<< 13, 1, 0, 0, 0 >>), ParsedMessage(<< 9, 1, 0, 0, 0, 0, 0, 0, 0 >>) }

\* For every leaf kind the value read is null or of the declared type.
LeafKindsAgree ==
    \A kind \in FieldKinds : \A message \in KindMessages :
        ExtractLeaf(message, KindField(kind)).type
            \in {"NULL", ProtobufTypeToDuckDBType(KindField(kind))}

\* C16: the kind of value written to a column at execution is the type bind
\* declared for it: the payload is declared and written BLOB exactly when
\* proto_extract is non-empty and VARCHAR otherwise, the JSON extraction
\* columns are VARCHAR, and for every protobuf leaf kind the value read is
\* null or of the type ProtobufTypeToDuckDBType gives for the kind.
C16_WrittenTypeIsDeclaredType ==
    /\ LeafKindsAgree
    /\ Bound =>
         /\ Len(return_types) = 5 + ExtractionCount
         /\ return_types[5] = "BLOB" <=> bind_data.proto_fields # << >>
         /\ return_types[5] = "VARCHAR" <=> bind_data.proto_fields = << >>
         /\ \A c \in 1..Len(bind_data.json_fields) : return_types[5 + c] = "VARCHAR"
         /\ \A i \in 1..Len(AllRows) :
              /\ AllRows[i].payload.type = return_types[5]
              /\ Len(AllRows[i].values) = ExtractionCount
              /\ \A c \in 1..ExtractionCount :
                   AllRows[i].values[c].type \in {"NULL", return_types[5 + c]}

\* A finished protobuf query that wrote a BIGINT and a VARCHAR column.
C16_Witness ==
    /\ Finished
    /\ return_types = << "VARCHAR", "VARCHAR", "UBIGINT", "TIMESTAMP", "BLOB",
                         "BIGINT", "VARCHAR" >>
    /\ emitted # << >>
    /\ emitted[1].payload = BlobValue(P_full)
    /\ emitted[1].values[1].type = "BIGINT"
    /\ emitted[1].values[2].type = "VARCHAR"

----------------------------------------------------------------------------
(* JSON extraction *)

\* The text is a decimal numeral: digits, one point, digits.
IsDecimal(text) ==
    /\ \A k \in 1..Len(text) : IsDigit(text[k]) \/ text[k] = 46
    /\ Cardinality({k \in 1..Len(text) : text[k] = 46}) = 1
    /\ text[1] # 46
    /\ text[Len(text)] # 46
    /\ Len(text) - Min({k \in 1..Len(text) : text[k] = 46}) <= FracDigits

\* The number a decimal numeral denotes, in units of 10^-FracDigits.
DecimalValue(text) ==
    LET point == Min({k \in 1..Len(text) : text[k] = 46})
    IN  DigitsValue(text, 1, point - 1) * Pow10(FracDigits)
        + DigitsValue(text, point + 1, Len(text))
          * Pow10(FracDigits - (Len(text) - point))

\* The column of a requested field, given the value the document has for
\* the field (none when it has no such member).
FieldColumnIs(val, column) ==
    CASE val.kind \in {"none", "null"} -> column = NullValue
      [] val.kind = "str" -> column = VarcharValue(val.text)
      [] val.kind = "true" -> column = VarcharValue(Text(<< "t", "r", "u", "e" >>))
      [] val.kind = "false" ->
            column = VarcharValue(Text(<< "f", "a", "l", "s", "e" >>))
      [] val.kind \in {"uint", "real"} ->
            /\ column.type = "VARCHAR"
            /\ IsDecimal(column.text)
            /\ 2 * (DecimalValue(column.text) - val.num) <= Pow10(FracDigits - Precision)
            /\ 2 * (val.num - DecimalValue(column.text)) <= Pow10(FracDigits - Precision)
            /\ val.num % Pow10(FracDigits - Precision) = 0 =>
                 DecimalValue(column.text) = val.num
      [] val.kind \in {"obj", "arr"} ->
            /\ column.type = "VARCHAR"
            /\ yyjson_read(column.text) = val

\* C17: for a payload that parses as JSON each requested top-level field
\* yields null when it is absent or JSON null, the literal of a string, "true"
\* or "false" for a boolean, the decimal numeral of a number (at the printed
\* precision) and the serialised JSON text of an object or array; the example
\* document with fields a..f gives "hi", 42.000000, "true", null, {"x":1},
\* null.
C17_JsonFieldValues ==
    bind_data.json_fields # << >> =>
        \A i \in 1..Len(AllRows) :
            LET root == yyjson_read(AllRows[i].payload.text)
            IN  /\ root.kind # "none" =>
                     \A c \in 1..Len(bind_data.json_fields) :
                        FieldColumnIs(
                            yyjson_obj_get(root, Text(bind_data.json_fields[c])),
                            AllRows[i].values[c])
                /\ (AllRows[i].payload.text = J_example
                    /\ Len(bind_data.json_fields) = 6) =>
                     [c \in 1..6 |-> AllRows[i].values[c].text] =
                        << Text(<< "h", "i" >>),
                           Text(<< "4", "2", ".", "0", "0", "0", "0", "0", "0" >>),
                           Text(<< "t", "r", "u", "e" >>),
                           << >>,
                           Text(<< "{", "\"", "x", "\"", ":", "1", "}" >>),
                           << >> >>
                /\ (AllRows[i].payload.text = J_example
                    /\ Len(bind_data.json_fields) = 6) =>
                     [c \in 1..6 |-> AllRows[i].values[c].type] =
                        << "VARCHAR", "VARCHAR", "VARCHAR", "NULL", "VARCHAR", "NULL" >>

\* A finished query that extracted the fields of the example document and of
\* a document whose numbers have fractions.
C17_Witness ==
    /\ Finished
    /\ Len(bind_data.json_fields) = 6
    /\ Len(emitted) = 2
    /\ emitted[1].payload.text = J_example
    /\ emitted[2].payload.text = J_numbers
    /\ emitted[2].values[2].text = Text(<< "1", ".", "2", "3", "4", "5", "6", "8" >>)

----------------------------------------------------------------------------
(* Protobuf extraction *)

PathsIdAndZone == << F_id, F_location \o Dot \o F_zone >>

\* The payload encodes the field, at the top level of the message.
EncodedAtTop(data, number, wire) ==
    \E k \in 1..Len(ReadEntries(data, 1, << >>).entries) :
        /\ ReadEntries(data, 1, << >>).entries[k].number = number
        /\ ReadEntries(data, 1, << >>).entries[k].wire = wire

\* The column of a path for a payload that parses.
PathColumnIs(data, field_path, column) ==
    LET parts == SplitPath(field_path)
        first == FindFieldByName(bind_data.proto_descriptor, parts[1])
        leaf == GetFieldDescriptorForPath(bind_data.proto_descriptor, field_path)
    IN  /\ (Len(parts) = 2 /\ ~EncodedAtTop(data, first.number, 2)) =>
              column = NullValue
        /\ leaf.type = "TYPE_MESSAGE" => column = NullValue
        /\ (/\ leaf.type # "TYPE_MESSAGE"
            /\ Len(parts) = 2 => EncodedAtTop(data, first.number, 2)) =>
              /\ column.type = ProtobufTypeToDuckDBType(leaf)
              /\ (Len(parts) = 1 /\ ~EncodedAtTop(data, leaf.number, 0)) =>
                    column.num = 0

\* The columns id and location.zone of the payloads of the model that parse.
ExpectedIdAndZone(data) ==
    CASE data = P_id -> << NumericValue("BIGINT", 7), NullValue >>
      [] data = P_empty -> << NumericValue("BIGINT", 0), NullValue >>
      [] data = P_full ->
            << NumericValue("BIGINT", 7), VarcharValue(Text(<< "z" >>)) >>
      [] data = P_location -> << NumericValue("BIGINT", 0), VarcharValue(<< >>) >>
      [] data = P_merged ->
            << NumericValue("BIGINT", 0), VarcharValue(Text(<< "z" >>)) >>
      [] data = P_wide -> << NumericValue("BIGINT", 300), NullValue >>
      [] data = P_unknown -> << NumericValue("BIGINT", 0), NullValue >>

\* C18: for a payload that parses as the message a dotted path yields null
\* when an intermediate message field on the path is not set and when the
\* leaf is message-typed, and the leaf's value otherwise, which for an unset
\* scalar is the default and not null; a payload that encodes only id = 7
\* gives id = 7 and location.zone = null.
C18_ProtoPathValues ==
    (Bound /\ bind_data.proto_fields # << >>) =>
        \A i \in 1..Len(AllRows) :
            ParseFromArray(bind_data.proto_descriptor, AllRows[i].payload.text) =>
                /\ \A c \in 1..Len(bind_data.proto_fields) :
                     PathColumnIs(AllRows[i].payload.text, bind_data.proto_fields[c],
                                   AllRows[i].values[c])
                /\ bind_data.proto_fields = PathsIdAndZone =>
                     AllRows[i].values = ExpectedIdAndZone(AllRows[i].payload.text)

\* A finished query over a payload that encodes only id = 7.
C18_Witness ==
    /\ Finished
    /\ bind_data.proto_fields = PathsIdAndZone
    /\ emitted # << >>
    /\ emitted[1].payload.text = P_id
    /\ emitted[1].values = << NumericValue("BIGINT", 7), NullValue >>

----------------------------------------------------------------------------
(* Probes of the range resolver *)

\* The probes issued to resolve one time bound.
ProbesFor(which) ==
    {k \in 1..Len(probes) : probes[k].by = "resolver" /\ probes[k].bound = which}

\* N, the number of sequences of the snapshot.
SnapshotSize == gs.stream_info.LastSeq - gs.stream_info.FirstSeq + 1

CeilLog2(n) == Min({e \in 0..WordBits : 2 ^ e >= n})

FloorLog2(n) == CHOOSE e \in 0..WordBits : 2 ^ e <= n /\ n < 2 ^ (e + 1)

\* C19 as stated: resolving one time bound over a snapshot of N >= 1
\* sequences issues at most ceil(log2 N) probes.
C19_AtMostCeilLog2Probes ==
    (gs.stream_info.valid /\ SnapshotSize >= 1) =>
        \A which \in {"start", "end"} :
            Cardinality(ProbesFor(which)) <= CeilLog2(SnapshotSize)

\* C19, amended: resolving one time bound over a snapshot of N >= 1 sequences
\* issues at most floor(log2 N) + 1 probes, for every target and every pattern
\* of absent sequences, and none when the snapshot is empty (N = 0).
C19_AtMostFloorLog2PlusOneProbes ==
    gs.stream_info.valid =>
        \A which \in {"start", "end"} :
            /\ SnapshotSize >= 1 =>
                 Cardinality(ProbesFor(which)) <= FloorLog2(SnapshotSize) + 1
            /\ SnapshotSize <= 0 => ProbesFor(which) = {}

\* The search for start_time over a snapshot of three sequences returns after
\* two probes, the first of them answered NOT_FOUND.
C19_Witness ==
    /\ pc = "resolver"
    /\ left > right
    /\ resolving = "start"
    /\ SnapshotSize = 3
    /\ Cardinality(ProbesFor("start")) = 2
    /\ probes[1].status = "NATS_NOT_FOUND"

----------------------------------------------------------------------------
(* The resolver's result applied to the scan *)

\* The resolver is about to return its result for the given bound.
Returns(which) == pc = "resolver" /\ left > right /\ resolving = which

\* start_time resolved to "none": DONE without the scan phase having begun.
StartWasNone ==
    bind_data.start_time > 0 /\ gs.done /\ gs.timestamps_resolved /\ ~effective.set

\* C20: when the resolver returns "none" for start_time the same execution
\* call returns an empty batch with the scan DONE, and end_time is never
\* resolved and no scan probe ever issued; when it returns a sequence, that
\* becomes current_seq.  When it returns "none" for end_time the end bound
\* keeps its value, last_seq; otherwise the end bound becomes the resolved
\* sequence.
C20_ResolvedBoundsApplied ==
    /\ [][Returns("start") =>
            IF result_seq = UINT64_MAX
            THEN /\ gs'.done
                 /\ output' = << >>
                 /\ pc' = "idle"
                 /\ calls' = calls + 1
                 /\ probes' = probes
                 /\ emitted' = emitted
                 /\ gs'.current_seq = gs.current_seq
                 /\ gs'.end_seq = gs.end_seq
            ELSE /\ gs'.current_seq = result_seq
                 /\ ~gs'.done
                 /\ calls' = calls]_vars
    /\ [][Returns("end") =>
            /\ gs'.current_seq = gs.current_seq
            /\ IF result_seq = UINT64_MAX
               THEN gs'.end_seq = gs.end_seq /\ gs'.end_seq = gs.stream_info.LastSeq
               ELSE gs'.end_seq = result_seq]_vars
    /\ [](StartWasNone =>
            /\ ProbesFor("end") = {}
            /\ ScanProbes = {}
            /\ emitted = << >>
            /\ pc \in {"idle", "destroyed"})

\* start_time resolved to sequence 2 and end_time to "none": the scan is about
\* to run from 2 to last_seq = 3.
C20_Witness ==
    /\ pc = "range_check"
    /\ resolving = "end"
    /\ result_seq = UINT64_MAX
    /\ bind_data.start_time > 0
    /\ gs.current_seq = 2
    /\ gs.end_seq = 3
    /\ stream.LastSeq = 3

----------------------------------------------------------------------------
(* When the range resolver runs *)

\* A step that begins a run of the resolver for the given bound.
BeginsRun(which) ==
    /\ pc' = "resolver"
    /\ resolving' = which
    /\ pc # "resolver" \/ resolving # which

\* C21: the range resolver runs at most once per time bound per query, only
\* for a bound that is set, in the first execution call and with the
\* stream-info snapshot held; once the resolution is recorded no later call
\* runs the resolver, the end bound never changes again and the cursor only
\* moves by the fill loop.
C21_ResolverRunsOnce ==
    /\ [][BeginsRun("start") =>
            /\ resolving = ""
            /\ bind_data.start_time > 0
            /\ calls = 0
            /\ ~gs.timestamps_resolved
            /\ gs.stream_info.valid]_vars
    /\ [][BeginsRun("end") =>
            /\ resolving \in {"", "start"}
            /\ resolving = "start" => pc = "resolver"
            /\ bind_data.end_time > 0
            /\ calls = 0
            /\ ~gs.timestamps_resolved
            /\ gs.stream_info.valid]_vars
    /\ [][gs.timestamps_resolved =>
            /\ gs'.timestamps_resolved
            /\ pc' # "resolver"
            /\ probes' # probes => probes'[Len(probes')].by = "scan"
            /\ gs'.end_seq = gs.end_seq
            /\ gs'.current_seq # gs.current_seq =>
                 (pc = "scan" /\ gs'.current_seq = gs.current_seq + 1)]_vars
    /\ []((bind_data.start_time <= 0 /\ bind_data.end_time <= 0) =>
            (pc # "resolver" /\ resolving = ""
             /\ \A k \in 1..Len(probes) : probes[k].by = "scan"))

\* Both bounds were resolved with probes in the first of two execution calls;
\* the second call only scanned.
C21_Witness ==
    /\ Finished
    /\ calls = 2
    /\ gs.timestamps_resolved
    /\ ProbesFor("start") # {}
    /\ ProbesFor("end") # {}
    /\ Len(emitted) = 3
    /\ probes[Len(probes)].by = "scan"

----------------------------------------------------------------------------
(* The initial cursor and the end bound *)

Max2(a, b) == IF a >= b THEN a ELSE b

\* Bind and InitGlobal have run.
Initialised == pc \notin {"bind", "bind_error", "init_global"}

\* C22: current_seq starts at max(start_seq, 1), and the first probe of a
\* sequence window is of that sequence; an end_seq left at the sentinel is
\* replaced by the snapshot's last_seq in the first execution call, before the
\* first probe; an end_seq the caller gave is the end bound throughout, also
\* when it exceeds last_seq.
C22_InitialCursorAndEndBound ==
    /\ []((Initialised /\ calls = 0 /\ pc = "idle") =>
            gs.current_seq = Max2(bind_data.start_seq, 1))
    /\ []((Initialised /\ probes # << >>
           /\ bind_data.start_time <= 0 /\ bind_data.end_time <= 0) =>
            probes[1].seq = Max2(bind_data.start_seq, 1))
    /\ []((Initialised /\ bind_data.end_seq # UINT64_MAX) =>
            gs.end_seq = bind_data.end_seq)
    /\ []((Initialised /\ bind_data.end_seq = UINT64_MAX /\ gs.stream_info.valid
           /\ (bind_data.end_time <= 0 \/ ~gs.timestamps_resolved)) =>
            (gs.end_seq = stream.LastSeq /\ gs.stream_info.LastSeq = stream.LastSeq))
    /\ [][(bind_data.end_seq = UINT64_MAX /\ probes = << >> /\ probes' # << >>) =>
            (calls = 0 /\ gs.stream_info.valid /\ gs.end_seq = stream.LastSeq)]_vars

\* A finished scan with start_seq = 2 and an end_seq one past last_seq: the
\* first probe was of sequence 2 and the end bound is still the caller's.
C22_Witness ==
    /\ Finished
    /\ bind_data.start_seq = 2
    /\ stream.LastSeq = MaxSeq
    /\ bind_data.end_seq = MaxSeq + 1
    /\ gs.end_seq = MaxSeq + 1
    /\ probes[1].seq = 2
    /\ Len(emitted) = 2

----------------------------------------------------------------------------
(* Failures of direct-get *)

\* The query was aborted by a failed direct-get.
FetchAborted == error.kind \in {"fetch", "resolve_fetch"}

LastProbe == probes[Len(probes)]

\* C23 as stated: after a direct-get failure other than NOT_FOUND, in the fill
\* loop or in the resolver, the diagnostic names the probed sequence, DONE is
\* not set and the aborting call has not moved the cursor past the failing
\* sequence (the cursor is at or before it, or still where InitGlobal put it).
C23_CursorNotPastFailure ==
    FetchAborted =>
        /\ LastProbe.status = "NATS_ERR"
        /\ error.seq = LastProbe.seq
        /\ ~gs.done
        /\ \/ gs.current_seq <= error.seq
           \/ gs.current_seq = InitialCursor(bind_data.start_seq)

\* C23, amended: every direct-get failure other than NOT_FOUND aborts the
\* query in the step that sees it, with a diagnostic that names the probed
\* sequence (current_seq in the fill loop, mid in the resolver); that step
\* hands no batch to the engine and leaves the scan state, DONE and cursor
\* included, as it was; nothing is probed or emitted afterwards.  In the fill
\* loop the cursor therefore stays on the failing sequence; in the resolver it
\* keeps the value it had, which may lie past the probed sequence when
\* start_time was resolved earlier in the same call.
C23_FetchFailureAborts ==
    /\ [][(probes' # probes /\ probes'[Len(probes')].status = "NATS_ERR") =>
            /\ pc' = "aborted"
            /\ error'.kind = (IF pc = "scan" THEN "fetch" ELSE "resolve_fetch")
            /\ error'.seq = probes'[Len(probes')].seq
            /\ error'.seq = (IF pc = "scan" THEN gs.current_seq ELSE Mid(left, right))
            /\ gs' = gs
            /\ ~gs.done
            /\ emitted' = emitted
            /\ calls' = calls + 1]_vars
    /\ [][pc' = "aborted" => (pc' = pc \/ error' # NoError)]_vars
    /\ [][FetchAborted =>
            /\ pc' \in {"aborted", "destroyed"}
            /\ probes' = probes
            /\ emitted' = emitted
            /\ error' = error
            /\ gs'.current_seq = gs.current_seq
            /\ gs'.done = gs.done]_vars
    /\ [](error.kind = "fetch" =>
            /\ LastProbe = [by |-> "scan", seq |-> error.seq, status |-> "NATS_ERR",
                            bound |-> ""]
            /\ gs.current_seq = error.seq
            /\ ~gs.done)
    /\ [](error.kind = "resolve_fetch" =>
            /\ LastProbe.by = "resolver"
            /\ LastProbe.status = "NATS_ERR"
            /\ LastProbe.seq = error.seq
            /\ ~gs.done)

\* The probe of sequence 2 for end_time failed after start_time had been
\* resolved to sequence 3: the diagnostic names 2, the cursor is 3.
C23_Witness ==
    /\ pc = "aborted"
    /\ error = [kind |-> "resolve_fetch", seq |-> 2]
    /\ LastProbe.bound = "end"
    /\ gs.current_seq = 3
    /\ emitted = << >>

----------------------------------------------------------------------------
(* Lifetime of fetched messages *)

EventsOf(op) == {k \in 1..Len(msg_events) : msg_events[k].op = op}

\* The direct-get calls that returned a message.
Obtained == {k \in EventsOf("js_DirectGetMsg") : msg_events[k].status = "NATS_OK"}

\* Messages obtained and not yet released after the first k events.
LiveAfter(k) ==
    Cardinality({j \in Obtained : j <= k})
    - Cardinality({j \in EventsOf("natsMsg_Destroy") : j <= k})

\* C24: every message obtained by direct-get is released exactly once, and
\* the release is the next thing that happens to the broker or the cursor:
\* before the next probe and before the cursor advances, in the fill loop (row
\* written, subject filter mismatch) and in the resolver; only obtained
\* messages are released; at most one message is live at any time and none
\* when an execution call has returned or thrown.
C24_MessagesReleasedOnce ==
    /\ Cardinality(EventsOf("js_DirectGetMsg")) = Len(probes)
    /\ \A k \in Obtained :
         /\ k < Len(msg_events)
         /\ msg_events[k + 1] = MsgDestroy(msg_events[k].seq)
    /\ \A k \in EventsOf("natsMsg_Destroy") :
         /\ k > 1
         /\ k - 1 \in Obtained
         /\ msg_events[k - 1].seq = msg_events[k].seq
    /\ \A k \in EventsOf("current_seq++") : LiveAfter(k - 1) = 0
    /\ \A k \in EventsOf("js_DirectGetMsg") : LiveAfter(k - 1) = 0
    /\ \A k \in 0..Len(msg_events) : LiveAfter(k) \in {0, 1}
    /\ pc \in {"idle", "aborted", "destroyed"} => LiveAfter(Len(msg_events)) = 0
    /\ Cardinality(Obtained) >= Len(AllRows)

\* A finished scan that wrote one row, rejected one message and skipped an
\* absent sequence: two messages were obtained and two released.
C24_Witness ==
    /\ Finished
    /\ Len(emitted) = 1
    /\ Cardinality(RejectedProbes) = 1
    /\ Cardinality(AbsentProbes) = 1
    /\ Cardinality(Obtained) = 2
    /\ Cardinality(EventsOf("natsMsg_Destroy")) = 2
    /\ Len(msg_events) = 8

----------------------------------------------------------------------------
(* Batches *)

PastEnd == gs.current_seq > gs.end_seq

\* An execution call has returned (it did not throw).
CallReturned == pc = "idle" /\ calls > 0

\* C25 as stated: when an execution call has returned, DONE is set exactly
\* when current_seq is greater than the end bound.
C25_DoneExactlyWhenPastEnd == CallReturned => (gs.done <=> PastEnd)

\* C25, amended: every execution call hands at most batch_capacity rows to the
\* engine; the fill loop issues a probe exactly while the batch has room and
\* the cursor is within the end bound, and returns at the first test that
\* finds the batch full or the cursor past the end; a call that ran the fill
\* loop leaves DONE set exactly when the cursor is past the end bound, and the
\* check before the loop returns an empty batch with DONE set exactly when
\* the cursor is already past it.  Over all calls DONE is set exactly when the
\* cursor is past the end bound or start_time resolved to no sequence, in
\* which case the cursor may still lie within the end bound.
C25_BatchCapacityAndDone ==
    /\ [](CallReturned => (gs.done <=> (PastEnd \/ StartWasNone)))
    /\ [](pc = "scan" => (count = Len(output) /\ count <= max_rows))
    /\ [][emitted' # emitted =>
            /\ pc = "scan" /\ pc' = "idle"
            /\ emitted' = emitted \o output
            /\ Len(emitted') - Len(emitted) <= max_rows
            /\ calls' = calls + 1]_vars
    /\ [][pc = "scan" =>
            IF count < max_rows /\ ~PastEnd
            THEN probes' # probes /\ pc' \in {"scan", "aborted"}
            ELSE /\ probes' = probes
                 /\ pc' = "idle"
                 /\ gs'.current_seq = gs.current_seq
                 /\ gs'.end_seq = gs.end_seq
                 /\ gs'.done <=> PastEnd]_vars
    /\ [][pc = "range_check" =>
            IF PastEnd
            THEN pc' = "idle" /\ gs'.done /\ output' = << >> /\ emitted' = emitted
            ELSE pc' = "scan" /\ ~gs'.done /\ count' = 0]_vars

\* The first call returned a full batch with the cursor still within the end
\* bound: DONE is not set.
C25_Witness ==
    /\ pc = "idle"
    /\ calls = 1
    /\ Len(emitted) = max_rows
    /\ count = max_rows
    /\ ~gs.done
    /\ gs.current_seq <= gs.end_seq

----------------------------------------------------------------------------
(* Termination *)

\* Inside an execution call.
InCall == pc \in {"resolve", "resolver", "range_check", "scan"}

\* A broker call failed, or the engine dropped the scan state.
Failed == error # NoError
Dropped == pc = "destroyed"

\* C26: if no broker call fails and the engine keeps pulling, every execution
\* call returns, and a query that bound reaches DONE after finitely many
\* execution calls, for every snapshot and window; every call that returns
\* has emitted at least one row or left the scan DONE, so DONE is set no later
\* than one call after the last full batch.
C26_ScanReachesDone ==
    /\ <>(gs.done \/ Failed \/ Dropped \/ bind_error # "")
    /\ InCall ~> (pc = "idle" \/ Failed)
    /\ [][(calls' = calls + 1 /\ pc' = "idle") =>
            (Len(emitted') > Len(emitted) \/ gs'.done)]_vars
    /\ [][(~gs.done /\ gs'.done) => calls' <= (Len(emitted') \div max_rows) + 1]_vars

\* The scan reached DONE in its second call after a first call that filled
\* its batch.
C26_Witness ==
    /\ Finished
    /\ calls = 2
    /\ Len(emitted) = max_rows + 1
    /\ Cardinality(AbsentProbes) = 0

----------------------------------------------------------------------------
(* The three walks over a field path *)

\* Depth of the field paths compared.
MaxDepth == 3

MessageTypes == {"Telemetry", "Loc"}

\* Path components: the field names of the schema, a name no message has and
\* the empty name (two adjacent dots, or a dot at either end).
PathComponents == {F_id, F_location, F_zone, << "n" >>, << >>}

PartLists == UNION {[1..n -> PathComponents] : n \in 1..MaxDepth}

RECURSIVE JoinPath(_, _)
JoinPath(parts, k) ==
    IF k >= Len(parts) THEN parts[k] ELSE parts[k] \o Dot \o JoinPath(parts, k + 1)

\* Every component exists in the message reached so far and every
\* non-terminal component is message-typed.
PathResolves(desc, parts) ==
    \E reached \in [1..Len(parts) -> MessageTypes] :
        /\ reached[1] = desc
        /\ \A i \in 1..Len(parts) :
             \E f \in SchemaFields(reached[i]) :
                /\ f.name = parts[i]
                /\ i < Len(parts) =>
                     (f.type = "TYPE_MESSAGE" /\ reached[i + 1] = f.message_type)

SkippedBranches == {"field_not_found", "not_a_message"}

\* The walks of bind, GetFieldDescriptorForPath and ExtractProtobufValue over
\* one path, the last over every payload that parses.
WalksAgree(desc, path, parts) ==
    /\ ValidateFieldPath(desc, path) = "" <=> PathResolves(desc, parts)
    /\ ValidateFieldPath(desc, path) = "" <=>
         GetFieldDescriptorForPath(desc, path) # NullField
    /\ \A data \in ProtoPayloads :
         ParseFromArray(desc, data) =>
            (ValidateFieldPath(desc, path) = "" =>
                ExtractBranch(ParsedMessage(data), desc, SplitPath(path), 1)
                    \notin SkippedBranches)

AllWalksAgree ==
    \A desc \in MessageTypes : \A parts \in PartLists :
        /\ SplitPath(JoinPath(parts, 1)) = parts
        /\ WalksAgree(desc, JoinPath(parts, 1), parts)

\* C27: bind accepts a dotted field path exactly when every component exists
\* in the message reached so far and every non-terminal component is
\* message-typed, and the three walks agree: for a path bind accepts
\* GetFieldDescriptorForPath returns a leaf descriptor, so the declared type
\* never comes from the VARCHAR fallback, and ExtractProtobufValue never
\* returns from its "field not found" or "not a message" branch.
C27_PathWalksAgree ==
    /\ AllWalksAgree
    /\ bind_error \in SkippedBranches =>
         \E i \in 1..Len(args.proto_extract) :
            ~PathResolves(BindDescriptor(BindLocals), SplitPath(args.proto_extract[i]))
    /\ Bound =>
         \A i \in 1..Len(bind_data.proto_fields) :
            LET path == bind_data.proto_fields[i]
                leaf == GetFieldDescriptorForPath(bind_data.proto_descriptor, path)
            IN  /\ PathResolves(bind_data.proto_descriptor, SplitPath(path))
                /\ leaf # NullField
                /\ return_types[5 + i] = ProtobufTypeToDuckDBType(leaf)
                /\ \A r \in 1..Len(AllRows) :
                     ParseFromArray(bind_data.proto_descriptor, AllRows[r].payload.text)
                     => ExtractBranch(ParsedMessage(AllRows[r].payload.text),
                                      bind_data.proto_descriptor, SplitPath(path), 1)
                            \notin SkippedBranches

\* A finished query over location.zone: the walk reached the leaf in the
\* first row and stopped at the unset location in the second.
C27_Witness ==
    /\ Finished
    /\ bind_data.proto_fields = << F_id, F_location \o Dot \o F_zone >>
    /\ Len(emitted) = 2
    /\ ExtractBranch(ParsedMessage(emitted[1].payload.text), "Telemetry",
                     << F_location, F_zone >>, 1) = "leaf"
    /\ ExtractBranch(ParsedMessage(emitted[2].payload.text), "Telemetry",
                     << F_location, F_zone >>, 1) = "nested_unset"

----------------------------------------------------------------------------
(* Empty batches *)

\* The message at sequence q lies in the window the call asked for.
InWindow(q) ==
    /\ q >= InitialCursor(bind_data.start_seq)
    /\ bind_data.end_seq # UINT64_MAX => q <= bind_data.end_seq
    /\ bind_data.start_time > 0 => stream.msgs[q].time >= bind_data.start_time
    /\ bind_data.end_time > 0 => stream.msgs[q].time <= bind_data.end_time

\* Present messages of the window that pass the subject filter and were not
\* emitted yet.
Remaining ==
    {q \in PresentSeqs :
        /\ InWindow(q)
        /\ SubjectMatches(stream.msgs[q].subject, bind_data.subject_filter)
        /\ q \notin EmittedSeqs}

\* C28: a call that returns fewer than batch_capacity rows leaves the scan
\* DONE, and a call returns a batch with zero rows only when no present
\* message of the window that passes the subject filter remains to be
\* emitted.
C28_NoEmptyBatchBeforeExhausted ==
    CallReturned =>
        /\ Len(output) < max_rows => gs.done
        /\ output = << >> => Remaining = {}

----------------------------------------------------------------------------
(* The bounds of the binary search *)

\* The search is between two iterations, or about to return.
Searching == pc = "resolver"

\* An iteration of the search loop that does not throw.
Iterates == pc = "resolver" /\ left <= right /\ pc' = "resolver"

FirstSeq == gs.stream_info.FirstSeq
LastSeq == gs.stream_info.LastSeq

\* C29 as stated: left and right stay within [first_seq, last_seq + 1].
C29_BoundsWithinSnapshotInterval ==
    Searching =>
        /\ FirstSeq <= left /\ left <= LastSeq + 1
        /\ FirstSeq <= right /\ right <= LastSeq + 1

\* C29, amended: the bounds never wrap: "right = mid - 1" runs only with
\* mid >= 1 and "left = mid + 1" only with mid < 2^64 - 1; left stays within
\* [first_seq, last_seq + 1], mid within [first_seq, last_seq] and right
\* within [first_seq - 1, last_seq], where right = first_seq - 1 occurs only
\* with first_seq >= 1; every iteration shrinks right - left, so the loop
\* terminates, for every snapshot, first_seq = 0 and first_seq > last_seq
\* included.
C29_BoundsNeverWrap ==
    /\ [](Searching =>
            /\ FirstSeq <= left /\ left <= LastSeq + 1
            /\ FirstSeq <= right + 1 /\ right <= LastSeq
            /\ right < FirstSeq => FirstSeq >= 1
            /\ left <= right =>
                 /\ left + (right - left) \div 2 = Mid(left, right)
                 /\ FirstSeq <= Mid(left, right) /\ Mid(left, right) <= LastSeq)
    /\ [][(Iterates /\ right' # right) =>
            (Mid(left, right) >= 1 /\ right' = Mid(left, right) - 1)]_vars
    /\ [][(Iterates /\ left' # left) =>
            (Mid(left, right) < UINT64_MAX /\ left' = Mid(left, right) + 1)]_vars
    /\ [][Iterates =>
            /\ left' # left \/ right' # right
            /\ right' - left' < right - left]_vars

\* The only sequence of the snapshot matched, and right went below first_seq
\* without wrapping: first_seq = 1, right = 0.
C29_Witness ==
    /\ Searching
    /\ FirstSeq = 1
    /\ LastSeq = 1
    /\ left = 1
    /\ right = 0
    /\ result_seq = 1

----------------------------------------------------------------------------
(* Appends and purges during the scan *)

\* Neither end_seq nor end_time was given.
OpenEnded == bind_data.end_seq = UINT64_MAX /\ bind_data.end_time <= 0

\* The snapshot is held by the scan state.
SnapshotHeld == pc # "destroyed" /\ gs.stream_info.valid

\* C30: while publishers append and messages are purged, a scan without
\* end_seq and end_time takes one stream-info snapshot, keeps it, and never
\* emits a row with a sequence greater than the snapshot's last_seq; the
\* scan reaches DONE after finitely many calls unless a broker call fails or
\* the engine drops it.
C30_SnapshotBoundsTheScan ==
    /\ [](Cardinality(CallsOf("js_GetStreamInfo")) <= 1)
    /\ [][(SnapshotHeld /\ pc' # "destroyed") => gs'.stream_info = gs.stream_info]_vars
    /\ []((Initialised /\ OpenEnded /\ SnapshotHeld) =>
            /\ gs.end_seq = LastSeq
            /\ \A i \in 1..Len(AllRows) : AllRows[i].seq <= LastSeq
            /\ \A k \in ScanProbes : probes[k].seq <= LastSeq)
    /\ [][(Initialised /\ OpenEnded /\ pc' = "destroyed") => emitted' = emitted]_vars
    /\ <>(gs.done \/ Failed \/ Dropped \/ bind_error # "")

\* Two messages were appended after the snapshot of an empty stream was
\* taken: the scan is DONE without a row although the stream now holds them.
C30_Witness ==
    /\ Finished
    /\ OpenEnded
    /\ LastSeq = 0
    /\ stream.LastSeq = 2
    /\ Present(1) /\ Present(2)
    /\ emitted = << >>

----------------------------------------------------------------------------
(* The handles at the end of a call *)

\* A call of NatsScanExecute has ended, by returning or by throwing.
CallEnded == pc \in {"idle", "aborted"} /\ calls > 0

\* C31: at the end of every execution call, also one that throws in the
\* connection phase, a non-null JetStream context implies a non-null
\* stream info.
C31_JetStreamImpliesStreamInfo ==
    CallEnded => (gs.js => gs.stream_info.valid)

----------------------------------------------------------------------------
(* The timestamps_resolved flag *)

\* A time bound was given.
TimeBounded == bind_data.start_time > 0 \/ bind_data.end_time > 0

\* The connection step is complete: the call went on to the resolution step.
PastConnection == pc \in {"range_check", "scan"} \/ CallReturned

\* C32 (as stated): once a call has completed the connection step, the
\* timestamps_resolved flag is true, with or without a time bound.
C32_FlagSetAfterConnection ==
    PastConnection => gs.timestamps_resolved

\* C32 (amended): once a call has gone past the resolution step, the flag is
\* true exactly when a time bound was given; without one it is false from
\* InitGlobal until the scan state is destroyed; the flag is never cleared
\* while the scan state lives, and it is set only by the step that applies
\* the resolver's result.
C32_FlagSetOnlyByResolution ==
    /\ [](PastConnection => (gs.timestamps_resolved <=> TimeBounded))
    /\ []((Initialised /\ ~TimeBounded) => ~gs.timestamps_resolved)
    /\ [][(gs.timestamps_resolved /\ pc' # "destroyed") => gs'.timestamps_resolved]_vars
    /\ [][(~gs.timestamps_resolved /\ gs'.timestamps_resolved) =>
            (pc = "resolver" /\ left > right)]_vars

\* A scan without a time bound emitted a row and returned, the connection
\* and the stream info in hand, and the flag is still false.
C32_Witness ==
    /\ CallReturned
    /\ ~TimeBounded
    /\ gs.js /\ gs.stream_info.valid
    /\ Len(emitted) > 0
    /\ ~gs.timestamps_resolved

====
